---- MODULE Spec2Model ----
(***************************************************************************)
(* Model of src/grid.ts: the directory scanner, the per-directory metadata *)
(* cache, the mosaic composer and the deepest-first index aggregation.     *)
(*                                                                         *)
(* A path string is modelled by the sequence of its pieces between "/"     *)
(* separators, i.e. by what String.split("/") returns for it:              *)
(*   "lib"   = <<"lib">>        "lib/"  = <<"lib", "">>                    *)
(*   "."     = <<".">>          "./lib" = <<".", "lib">>                   *)
(*   "lib/a" = <<"lib", "a">>                                              *)
(* A cache key ("a/x.jpg") is modelled the same way.                       *)
(***************************************************************************)
EXTENDS Integers, Sequences, FiniteSets, TLC

\* ------------------------------------------------------------------ bounds
MaxRuns == 3        \* runs of the pipeline in one behaviour
MaxChanges == 2     \* filesystem changes made between the runs
MaxDepth == 4       \* pieces of the longest path the scan lists
MaxTaskFiles == 11  \* media files of the directory whose tasks are followed
MaxNameLen == 2     \* characters of the file names tried as cache keys

\* ------------------------------------------------------- program constants
CELL_SIZE == 360
GRID_SIZE == CELL_SIZE * 2
totalCells == (GRID_SIZE \div CELL_SIZE) * (GRID_SIZE \div CELL_SIZE)

\* ------------------------------------------------------------ the fixture
\* The subtree on disk, by names below the root directory:
\*   <root>/r.jpg   <root>/a/x.jpg   <root>/a/c/y.jpg   <root>/b/w.jpg
\*   <root>/b/z.jpg   <root>/.h/h.jpg
\* a directory "v..2" (a name with two dots in it) that may be created, and
\* <root>/b/loop, an entry that Deno.readDir lists as a directory and whose
\* real path is the root's (a link back to the root put in its place).
TreeDirs == { <<>>, <<"a">>, <<"a", "c">>, <<"b">>, <<".h">>, <<"v..2">> }
OptionalDirs == { <<"v..2">> }
\* the directories that may refuse to be listed
UnreadableDirs == { <<"a">>, <<"b">> }
\* the entries Deno.readDir reports with isDirectory
ChildNames(d) ==
  IF d = <<>> THEN <<"a", "b", ".h", "v..2">>
  ELSE IF d = <<"a">> THEN <<"c">>
  ELSE IF d = <<"b">> THEN <<"loop">>
  ELSE <<>>
\* where Deno.realPath leads from an entry that is a link
LinkTarget == ( <<"b", "loop">> :> <<>> )
\* names for which name.startsWith(".") holds
HiddenNames == { ".h" }
FileNames(d) ==
  IF d = <<>> THEN <<"r.jpg">>
  ELSE IF d = <<"a">> THEN <<"x.jpg">>
  ELSE IF d = <<"a", "c">> THEN <<"y.jpg">>
  ELSE IF d = <<"b">> THEN <<"w.jpg", "z.jpg">>
  ELSE IF d = <<".h">> THEN <<"h.jpg">>
  ELSE <<>>
\* files of the tree that are not media: a text and a Photoshop document
OtherNames(d) == IF d = <<>> THEN <<"n.txt", "P.PSD">> ELSE <<>>
TreeFiles == { d \o <<FileNames(d)[i]>> : d \in {<<"a">>}, i \in {1} }
              \cup { <<"r.jpg">>, <<"a", "c", "y.jpg">>, <<"b", "w.jpg">>, <<"b", "z.jpg">>,
                     <<".h", "h.jpg">> }
\* the file of the hidden directory, which stays as it is
HiddenFiles == { <<".h", "h.jpg">> }
\* z.jpg is a broken image: reading its metadata and decoding it fail
CorruptFiles == { <<"b", "z.jpg">>, <<"t", "f02.jpg">> }
\* names whose text contains ".."
DotDotNames == { "v..2", ".." }
\* the root directory as it can be spelled on the command line
RootArgs == { <<"lib">>, <<"lib", "">>, <<".">>, <<".", "lib">> }

Absent == [absent |-> TRUE]
\* a file that Deno.readDir lists but that can be neither stat-ed nor read
\* (its directory has lost the search permission)
Denied == [denied |-> TRUE]
\* the files this can happen to
DeniableFiles == { <<"a", "x.jpg">> }
\* what Deno.stat reports of a file written at time t: its size and mtime
Written(f, t) == [fileSize |-> Len(f), mtime |-> t]
NoSize == [width |-> 0, height |-> 0]
\* the pixel dimensions a successful probe of a file reports
RealSize == [width |-> 4, height |-> 3]

VARIABLES
  rootDir,        \* Deno.args[0]
  files,          \* the media files on disk: tree file -> Absent or its state
  dirs,           \* the optional directories that exist
  cacheFiles,     \* the cache sidecar files on disk: location -> Cache
  indexFiles,     \* the index files on disk: location -> entries
  mosaicFiles,    \* the mosaic files on disk: location -> embedded metadata
  pc,             \* "idle" | "process" | "done" | "failed" | "exit1"
  scanResult,     \* the DirectoryScanResult of the run in progress
  allDirectories, \* the sorted directory list of the run in progress
  dirResults,     \* Map<string, {cache, indexEntries}>
  stats,          \* totalNewFiles, pgridsGenerated, pgridsSkipped, totalFilesProcessed
  log,            \* per processed directory: what its processing did (history)
  runs,           \* runs started so far
  changes,        \* filesystem changes made so far
  lastRun,        \* what the previous complete run left, for comparison (history)
  cannotStart     \* the required commands that did not start in the run that is
                  \* in progress or has just ended

mainVars == << rootDir, files, dirs, cacheFiles, indexFiles, mosaicFiles, pc,
               scanResult, allDirectories, dirResults, stats, log, runs, changes,
               lastRun, cannotStart >>

\* the scanner and the walks over its result, one pass of their loops at a time
VARIABLES
  scanPc,         \* "idle" | "scan" | "walk" | "done"
  scanQueue,      \* the queue of scanAllDirectoriesAndFiles
  scanAcc,        \* directories, mediaFilesByDir, subdirsByDir, visited so far
  walk,           \* the walk in progress: its kind, base, queue and output
  unreadable      \* the directories whose listing fails

scanVars == << scanPc, scanQueue, scanAcc, walk, unreadable >>

\* the processFile tasks of one updateMetadataCache call, one await at a time
VARIABLES
  taskPc,         \* "idle" | "run" | "written"
  taskCleaned,    \* cleanedCache
  taskNewCache,   \* newCache
  taskPhase,      \* per task: "none" | "queued" | "stat" | "probe" | "done"
  taskLocal,      \* per task: NoResult or what its processFile holds or returned
  taskCount,      \* newFilesCount
  taskDisk,       \* what was written to cachePath, NoResult before the write
  taskOvertook    \* a task completed before one dispatched earlier (history)

taskVars == << taskPc, taskCleaned, taskNewCache, taskPhase, taskLocal, taskCount,
               taskDisk, taskOvertook >>

\* one call of processMediaFiles, one selected file at a time
VARIABLES
  mosaicRun,      \* pc, selectedFiles, idx, compositeOperations, processedImages, ...
  tmpDisk         \* the temporary files and directories on disk

mosaicVars == << mosaicRun, tmpDisk >>

\* one mosaic file: what is written and what a reader gets back
VARIABLES
  trailer         \* pc, cache, jpegBuffer, finalBuffer, what the reader found

trailerVars == << trailer >>

\* the job scheduler of cron.ts
VARIABLES
  config,         \* this.config: the jobs of the configuration file
  runningJobs,    \* Map<number, JobRun>: job index -> the run in progress
  jobRunsByJob,   \* Map<number, JobRun[]>: job index -> its history
  pendingRuns,    \* the runs whose executeCommand has not settled yet
  now,            \* the clock; it has moved on whenever a run is created
  httpResponse    \* the latest request of /api/run (its job parameter) and the answer

cronVars == << config, runningJobs, jobRunsByJob, pendingRuns, now, httpResponse >>

\* spawned commands whose two pipes are read by two loops: executeCommand of
\* cron.ts, and the downloads of gallery-update.ts with their DownloadLogger
VARIABLES
  pumpCfg,        \* the caller, the users to download and parallelCount
  procs,          \* per spawned command: its phase, pipes, read loops, status, output
  logger          \* the DownloadLogger: its two maps and its two counters

pumpVars == << pumpCfg, procs, logger >>
serviceVars == << cronVars, pumpVars >>
auxVars == << scanVars, taskVars, mosaicVars, trailerVars, serviceVars >>
vars == << mainVars, auxVars >>

\* ------------------------------------------------------------ sequences
Last(s) == s[Len(s)]
SeqToSet(s) == { s[i] : i \in 1..Len(s) }
IsPrefix(p, s) == Len(p) <= Len(s) /\ SubSeq(s, 1, Len(p)) = p
Drop(s, n) == SubSeq(s, n + 1, Len(s))
\* the element of a set of one element
Only(S) == CHOOSE x \in S : TRUE
RECURSIVE Flatten(_)
Flatten(ss) == IF ss = <<>> THEN <<>> ELSE Head(ss) \o Flatten(Tail(ss))

\* ---------------------------------------------------------------- jsr:@std/path
\* the named pieces of a path: no empty piece, no "." piece
Core(p) == SelectSeq(p, LAMBDA s : s # "" /\ s # ".")
StripTrailing(p) == IF Len(p) > 1 /\ Last(p) = "" THEN SubSeq(p, 1, Len(p) - 1) ELSE p
\* path.normalize: "." and empty pieces go, a trailing separator stays
normalize(p) ==
  LET c == Core(p)
      base == IF c = <<>> THEN <<".">> ELSE c
  IN IF Len(p) > 1 /\ Last(p) = "" THEN base \o <<"">> ELSE base
\* path.join(p, q): the pieces joined by a separator, then normalized
join(p, q) == normalize(p \o q)
\* path.basename: the last named piece ("lib/" -> "lib", "." -> ".")
basename(p) == Last(StripTrailing(p))
\* path.dirname: everything before the last piece ("lib" -> ".", "lib/" -> ".")
dirname(p) ==
  LET q == StripTrailing(p)
  IN IF Len(q) <= 1 THEN <<".">> ELSE SubSeq(q, 1, Len(q) - 1)
\* path.relative(from, to) for a `to` at or below `from`; "" is <<>>
relative(from, to) == Drop(Core(to), Len(Core(from)))
\* a.split(path.SEPARATOR).length
depth(p) == Len(p)

\* normalizedPath.includes("..")
HasDotDot(p) == \E i \in 1..Len(p) : p[i] \in DotDotNames
\* validatePath: the normalized path, or the exception "Path traversal detected"
validatePath(directory) ==
  LET normalizedPath == normalize(directory)
  IN [throws |-> HasDotDot(normalizedPath), path |-> normalizedPath]

\* ------------------------------------------------------------ filesystem
\* where a path leads: its named pieces from the working directory
Resolve(p) == Core(p)
\* the working directory is the parent of "lib", or the root itself for "."
TreeRoot(root) == Core(root)
InTree(root, loc) == IsPrefix(TreeRoot(root), loc)
TreeLoc(root, loc) == Drop(loc, Len(TreeRoot(root)))
\* the place in the tree a place leads to once its links are followed
RECURSIVE RealLoc(_)
RealLoc(loc) ==
  IF loc = <<>> THEN <<>>
  ELSE Only({ IF here \in DOMAIN LinkTarget THEN LinkTarget[here] ELSE here :
              here \in { RealLoc(SubSeq(loc, 1, Len(loc) - 1)) \o <<Last(loc)>> } })
\* (mutant) the real path is the path itself, links not followed
realPath_NoLinks(root, p) == Resolve(p)

\* Deno.realPath of a path at or below the root
realPath(root, p) == TreeRoot(root) \o RealLoc(TreeLoc(root, Resolve(p)))
DirExists(root, present, p) ==
  /\ InTree(root, Resolve(p))
  /\ RealLoc(TreeLoc(root, Resolve(p))) \in TreeDirs
  /\ RealLoc(TreeLoc(root, Resolve(p))) \in OptionalDirs
       => RealLoc(TreeLoc(root, Resolve(p))) \in present
\* Deno.stat of a media file
Stat(root, fsys, p) == fsys[RealLoc(TreeLoc(root, Resolve(p)))]
\* whether the image at p cannot be read as an image
IsCorrupt(root, p) == RealLoc(TreeLoc(root, Resolve(p))) \in CorruptFiles
\* whether Deno.stat and Deno.readFile of p throw
IsDenied(root, fsys, p) == Stat(root, fsys, p) = Denied

\* (mutant) no name counts as hidden
startsWithDot_Never(name) == FALSE

\* entry.name.startsWith(".")
startsWithDot(name) == name \in HiddenNames

\* Deno.readDir: the entries of a directory, directories then files
ListedDirs(present, loc) ==
  SelectSeq(ChildNames(loc), LAMBDA n : (loc \o <<n>>) \in OptionalDirs => (loc \o <<n>>) \in present)
\* lines 416-421: the directory entries that are not hidden
SubdirNames(present, loc) ==
  SelectSeq(ListedDirs(present, loc), LAMBDA n : ~startsWithDot(n))

\* ------------------------------------------------------------ file names
\* s.endsWith(suffix), s.startsWith(prefix)
endsWith(s, suffix) ==
  Len(s) >= Len(suffix) /\ SubSeq(s, Len(s) - Len(suffix) + 1, Len(s)) = suffix
startsWith(s, prefix) ==
  Len(s) >= Len(prefix) /\ SubSeq(s, 1, Len(prefix)) = prefix
LowerOf ==
  ( "A" :> "a" @@ "B" :> "b" @@ "C" :> "c" @@ "D" :> "d" @@ "E" :> "e" @@ "F" :> "f" @@
    "G" :> "g" @@ "H" :> "h" @@ "I" :> "i" @@ "J" :> "j" @@ "K" :> "k" @@ "L" :> "l" @@
    "M" :> "m" @@ "N" :> "n" @@ "O" :> "o" @@ "P" :> "p" @@ "Q" :> "q" @@ "R" :> "r" @@
    "S" :> "s" @@ "T" :> "t" @@ "U" :> "u" @@ "V" :> "v" @@ "W" :> "w" @@ "X" :> "x" @@
    "Y" :> "y" @@ "Z" :> "z" )
RECURSIVE toLowerCase(_)
toLowerCase(s) ==
  IF s = "" THEN ""
  ELSE (IF SubSeq(s, 1, 1) \in DOMAIN LowerOf THEN LowerOf[SubSeq(s, 1, 1)]
        ELSE SubSeq(s, 1, 1)) \o toLowerCase(SubSeq(s, 2, Len(s)))
\* the text after the last "." of a name, "" when it has none
extension(name) ==
  IF \A i \in 1..Len(name) : SubSeq(name, i, i) # "." THEN ""
  ELSE LET i == CHOOSE i \in 1..Len(name) :
                  /\ SubSeq(name, i, i) = "."
                  /\ \A j \in (i + 1)..Len(name) : SubSeq(name, j, j) # "."
       IN SubSeq(name, i + 1, Len(name))

skipExtensions ==
  << ".psd", ".ai", ".eps", ".indd", ".pdf", ".part", ".zip", ".rar", ".7z", ".tar",
     ".gz", ".bz2", ".xz", ".wim", ".iso" >>
shouldSkipFile(filename) ==
  \E i \in 1..Len(skipExtensions) : endsWith(toLowerCase(filename), skipExtensions[i])

\* the entries of the MIME database for the extensions that occur here
MimeDb ==
  ( "jpg" :> "image/jpeg" @@ "png" :> "image/png" @@ "mp4" :> "video/mp4" @@
    "psd" :> "image/vnd.adobe.photoshop" @@ "json" :> "application/json" @@
    "html" :> "text/html" @@ "txt" :> "text/plain" @@ "pdf" :> "application/pdf" )
\* mimeType.lookup: by the lower-cased extension of the last piece, "" for none
lookup(filename) ==
  IF toLowerCase(extension(Last(filename))) \in DOMAIN MimeDb
  THEN MimeDb[toLowerCase(extension(Last(filename)))] ELSE ""
isMediaFile(filename) ==
  startsWith(lookup(filename), "image/") \/ startsWith(lookup(filename), "video/")

\* (mutant) no name is taken for a mosaic
isMosaicName_Never(name) == FALSE

\* entry.name.endsWith("_pgrid.jpg"), line 427
isMosaicName(name) == endsWith(name, "_pgrid.jpg")

\* the names the writers give their files: lines 212, 358, 652 and 724
sidecarName(dirName) == "." \o dirName \o "_pgrid.json"
mosaicName(dirName) == dirName \o "_pgrid.jpg"
viewerName == "0grid-viewer.html"
indexName == ".pgrid_index.json"

\* the files inside the tree that runs have written so far: cache sidecars,
\* mosaics with the viewer copied next to them, and index files
ArtifactFiles(root, caches, indexes, mosaics) ==
  { TreeLoc(root, k.dir) \o <<sidecarName(k.name)>> :
      k \in { k \in DOMAIN caches : InTree(root, k.dir) } }
  \cup { TreeLoc(root, k.dir) \o <<mosaicName(k.name)>> :
      k \in { k \in DOMAIN mosaics : InTree(root, k.dir) } }
  \cup { TreeLoc(root, k.dir) \o <<viewerName>> :
      k \in { k \in DOMAIN mosaics : InTree(root, k.dir) /\ k.name # "." } }
  \cup { TreeLoc(root, k) \o <<indexName>> :
      k \in { k \in DOMAIN indexes : InTree(root, k) } }

RECURSIVE SetToSeq(_)
SetToSeq(S) ==
  IF S = {} THEN <<>>
  ELSE Only({ Only({ <<x>> \o SetToSeq(T \ {x}) : x \in { CHOOSE y \in T : TRUE } }) : T \in { S } })

\* Deno.readDir: the entries of a directory that are files
ListedFiles(fsys, artifacts, loc) ==
  SelectSeq(FileNames(loc), LAMBDA n : fsys[loc \o <<n>>] # Absent)
    \o OtherNames(loc)
    \o SetToSeq({ Last(a) : a \in { a \in artifacts :
                                      Len(a) = Len(loc) + 1 /\ IsPrefix(loc, a) } })
\* lines 424-428: whether a listed file is recorded as media
isRecorded(absolutePath) ==
  /\ ~shouldSkipFile(Last(absolutePath))
  /\ isMediaFile(absolutePath)
  /\ ~isMosaicName(Last(absolutePath))
\* the names a directory of the tree can have, the root's included
DirNames == UNION { SeqToSet(ChildNames(d)) : d \in TreeDirs } \cup { "lib", "." }
\* every file name that can be listed, and the outcome of the test for each
\* (it depends on the last piece of the path only)
KnownNames ==
  UNION { SeqToSet(FileNames(d)) \cup SeqToSet(OtherNames(d)) : d \in TreeDirs }
  \cup { sidecarName(n) : n \in DirNames } \cup { mosaicName(n) : n \in DirNames }
  \cup { viewerName, indexName }
RecordedNames == { n \in KnownNames : isRecorded(<<n>>) }
\* lines 422-432: the files recorded as media
MediaNames(fsys, artifacts, loc) ==
  SelectSeq(ListedFiles(fsys, artifacts, loc), LAMBDA n : n \in RecordedNames)

\* ------------------------------------------------------------ Cache
\* A Cache (Record<string, CacheEntry>) is the sequence of its [name, entry]
\* pairs in key order, which for these keys is insertion order.
CacheKeys(cache) == { cache[i].name : i \in 1..Len(cache) }
CacheHas(cache, name) == name \in CacheKeys(cache)
CacheGet(cache, name) ==
  (CHOOSE i \in 1..Len(cache) : cache[i].name = name) 
CacheEntryOf(cache, name) == cache[CacheGet(cache, name)].entry
\* cache[name] = entry: an existing key keeps its place, a new key goes last
CacheSet(cache, name, entry) ==
  IF CacheHas(cache, name)
  THEN [cache EXCEPT ![CacheGet(cache, name)] = [name |-> name, entry |-> entry]]
  ELSE Append(cache, [name |-> name, entry |-> entry])

\* the sidecar and mosaic of a directory lie in its parent, under its name
SidecarLoc(parentDir, dirName) == [dir |-> Resolve(parentDir), name |-> dirName]
ReadCache(disk, loc) == IF loc \in DOMAIN disk THEN disk[loc] ELSE <<>>
writeFile(disk, loc, content) ==
  [l \in DOMAIN disk \cup {loc} |-> IF l = loc THEN content ELSE disk[l]]

\* ------------------------------------------------------------ scanner
MapGet(map, key) == IF key \in DOMAIN map THEN map[key] ELSE <<>>
MapSet(map, key, value) ==
  [k \in DOMAIN map \cup {key} |-> IF k = key THEN value ELSE map[k]]

\* (mutant) the visited set is never consulted
alreadyVisited_Never(visited, real) == FALSE

\* visited.has(realPath)
alreadyVisited(visited, real) == real \in visited

\* (mutant) the directory taken from the queue stays in it
shift_Keeps(queue) == queue

\* what queue.shift() leaves in the queue
shift(queue) == Tail(queue)

\* (mutant) a listing that fails is taken for one that succeeded
readDirThrows_Never(noList, loc) == FALSE

\* Deno.readDir(directory) throws (caught at line 436): the listing is fetched
\* as a whole, so it fails before its first entry
readDirThrows(noList, loc) == loc \in noList

\* one pass of the while loop of lines 393-454
scanStep(root, fsys, present, noList, artifacts, queue, acc) ==
  LET directory == Head(queue)
      rest == shift(queue)
      real == realPath(root, directory)
      loc == RealLoc(TreeLoc(root, Resolve(directory)))
      throws == readDirThrows(noList, loc)
      names == IF throws THEN <<>> ELSE SubdirNames(present, loc)
      subdirs == [i \in 1..Len(names) |-> join(directory, <<names[i]>>)]
      fnames == IF throws THEN <<>> ELSE MediaNames(fsys, artifacts, loc)
      mediaFiles == [i \in 1..Len(fnames) |->
                       [absolutePath |-> join(directory, <<fnames[i]>>),
                        relativePath |-> <<fnames[i]>>]]
  IN IF ~DirExists(root, present, directory)
     THEN [queue |-> rest, acc |-> acc]
     ELSE IF alreadyVisited(acc.visited, real)
     THEN [queue |-> rest, acc |-> [acc EXCEPT !.skipped = Append(@, directory)]]
     ELSE [queue |-> rest \o subdirs,
           acc |-> [directories |-> Append(acc.directories, directory),
                    mediaFilesByDir |-> MapSet(acc.mediaFilesByDir, directory, mediaFiles),
                    subdirsByDir |-> MapSet(acc.subdirsByDir, directory, subdirs),
                    visited |-> acc.visited \cup {real},
                    skipped |-> acc.skipped,
                    errors |-> IF throws THEN Append(acc.errors, directory)
                               ELSE acc.errors]]

RECURSIVE scanLoop(_, _, _, _, _, _, _)
scanLoop(root, fsys, present, noList, artifacts, queue, acc) ==
  IF queue = <<>> THEN acc
  ELSE scanLoop(root, fsys, present, noList, artifacts,
                scanStep(root, fsys, present, noList, artifacts, queue, acc).queue,
                scanStep(root, fsys, present, noList, artifacts, queue, acc).acc)

\* skipped: the paths logged by "[SCAN] Skipping symlink";
\* errors: the paths logged by "[SCAN] Error reading directory"
EmptyScan ==
  [directories |-> <<>>, mediaFilesByDir |-> <<>>, subdirsByDir |-> <<>>, visited |-> {},
   skipped |-> <<>>, errors |-> <<>>]
scanAllDirectoriesAndFiles(root, fsys, present, noList, artifacts) ==
  scanLoop(root, fsys, present, noList, artifacts, <<root>>, EmptyScan)

\* one pass of the while loop of collectMediaFilesIteratively
collectStep(scan, baseDir, dirQueue, allFiles) ==
  LET directory == Head(dirQueue)
      directFiles == MapGet(scan.mediaFilesByDir, directory)
      found == [i \in 1..Len(directFiles) |->
                  [absolutePath |-> directFiles[i].absolutePath,
                   relativePath |-> relative(baseDir, directFiles[i].absolutePath)]]
  IN [queue |-> Tail(dirQueue) \o MapGet(scan.subdirsByDir, directory),
      out |-> allFiles \o found]
RECURSIVE collectLoop(_, _, _, _)
collectLoop(scan, baseDir, dirQueue, allFiles) ==
  IF dirQueue = <<>> THEN allFiles
  ELSE collectLoop(scan, baseDir,
                   collectStep(scan, baseDir, dirQueue, allFiles).queue,
                   collectStep(scan, baseDir, dirQueue, allFiles).out)
collectMediaFilesIteratively(startDirectory, scan, baseDir) ==
  collectLoop(scan, baseDir, <<startDirectory>>, <<>>)

\* one pass of the while loop of collectAllSubdirectories
subdirStep(scan, queue, result) ==
  [queue |-> Tail(queue) \o MapGet(scan.subdirsByDir, Head(queue)),
   out |-> result \o MapGet(scan.subdirsByDir, Head(queue))]
RECURSIVE subdirLoop(_, _, _)
subdirLoop(scan, queue, result) ==
  IF queue = <<>> THEN result
  ELSE subdirLoop(scan, subdirStep(scan, queue, result).queue,
                  subdirStep(scan, queue, result).out)
collectAllSubdirectories(startDirectory, scan) ==
  subdirLoop(scan, <<startDirectory>>, <<>>)

\* allDirectories.sort((a, b) => depthB - depthA): a stable insertion by depth
RECURSIVE sortDeepestFirst(_)
InsertByDepth(sorted, d) ==
  LET before == SelectSeq(sorted, LAMBDA x : depth(x) >= depth(d))
      after == SelectSeq(sorted, LAMBDA x : depth(x) < depth(d))
  IN before \o <<d>> \o after
sortDeepestFirst(directories) ==
  IF directories = <<>> THEN <<>>
  ELSE InsertByDepth(sortDeepestFirst(SubSeq(directories, 1, Len(directories) - 1)),
                     Last(directories))

\* ------------------------------------------------------------ metadata cache
\* loadChildCaches: the caches of the immediate children, keys prefixed
RECURSIVE mergeChild(_, _, _)
mergeChild(mergedCache, childDir, childCache) ==
  IF childCache = <<>> THEN mergedCache
  ELSE mergeChild(CacheSet(mergedCache, join(<<childDir>>, Head(childCache).name),
                           Head(childCache).entry),
                  childDir, Tail(childCache))
RECURSIVE loadChildCaches(_, _, _)
loadChildCaches(disk, directory, childDirPaths) ==
  IF childDirPaths = <<>> THEN <<>>
  ELSE
    LET childDirPath == Last(childDirPaths)
        childDir == basename(childDirPath)
        childCachePath == SidecarLoc(directory, childDir)
    IN mergeChild(loadChildCaches(disk, directory,
                                  SubSeq(childDirPaths, 1, Len(childDirPaths) - 1)),
                  childDir, ReadCache(disk, childCachePath))

\* (mutant) a child entry replaces the own entry under the same key
RECURSIVE mergeIntoOld_ChildWins(_, _)
mergeIntoOld_ChildWins(oldCache, childCaches) ==
  IF childCaches = <<>> THEN oldCache
  ELSE mergeIntoOld_ChildWins(CacheSet(oldCache, Head(childCaches).name,
                                       Head(childCaches).entry),
                              Tail(childCaches))

\* lines 235-241: child entries go in only under keys the own cache lacks
RECURSIVE mergeIntoOld(_, _)
mergeIntoOld(oldCache, childCaches) ==
  IF childCaches = <<>> THEN oldCache
  ELSE mergeIntoOld(IF CacheHas(oldCache, Head(childCaches).name) THEN oldCache
                    ELSE CacheSet(oldCache, Head(childCaches).name, Head(childCaches).entry),
                    Tail(childCaches))

\* (mutant) the stale keys are never dropped
cleanCache_KeepsAll(oldCache, mediaFiles) == oldCache

\* lines 248-254: only the keys of live files stay
cleanCache(oldCache, mediaFiles) ==
  LET currentFileNames == { mediaFiles[i].relativePath : i \in 1..Len(mediaFiles) }
  IN SelectSeq(oldCache, LAMBDA e : e.name \in currentFileNames)

\* (mutant) a probe that fails is taken for one that succeeded
probe_NeverFails(root, fsys, file) == RealSize

\* the probe of lines 282-318: sharp(data).metadata(), {0, 0} when it throws
probe(root, fsys, file) ==
  IF IsCorrupt(root, file.absolutePath) \/ IsDenied(root, fsys, file.absolutePath)
  THEN NoSize ELSE RealSize

\* lines 263-270: the size and mtime of the stat, 0 and 0 when it throws
statOrZero(root, fsys, file) ==
  IF IsDenied(root, fsys, file.absolutePath)
  THEN [failed |-> TRUE, fileSize |-> 0, mtime |-> 0]
  ELSE [failed |-> FALSE,
        fileSize |-> Stat(root, fsys, file.absolutePath).fileSize,
        mtime |-> Stat(root, fsys, file.absolutePath).mtime]

\* (mutant) an entry whose probe had failed is not reused but probed again
isCacheHit_RetryFailed(newCache, name, fileSize, mtime) ==
  /\ CacheHas(newCache, name)
  /\ CacheEntryOf(newCache, name).fileSize = fileSize
  /\ CacheEntryOf(newCache, name).mtime = mtime
  /\ CacheEntryOf(newCache, name).size # NoSize

\* lines 273-277
isCacheHit(newCache, name, fileSize, mtime) ==
  /\ CacheHas(newCache, name)
  /\ CacheEntryOf(newCache, name).fileSize = fileSize
  /\ CacheEntryOf(newCache, name).mtime = mtime

\* (mutant) every file is probed, whatever the working cache holds
processFile_AlwaysProbes(root, fsys, newCache, file) ==
  LET st == statOrZero(root, fsys, file)
  IN [name |-> file.relativePath,
      entry |-> [fileSize |-> st.fileSize, mtime |-> st.mtime,
                 size |-> probe(root, fsys, file)],
      probed |-> TRUE, statFailed |-> st.failed]

\* processFile: stat, then reuse of the stored dimensions or a probe
processFile(root, fsys, newCache, file) ==
  LET name == file.relativePath
      st == statOrZero(root, fsys, file)
      hit == isCacheHit(newCache, name, st.fileSize, st.mtime)
      size == IF hit THEN CacheEntryOf(newCache, name).size ELSE probe(root, fsys, file)
  IN [name |-> name,
      entry |-> [fileSize |-> st.fileSize, mtime |-> st.mtime, size |-> size],
      probed |-> ~hit, statFailed |-> st.failed]

\* (mutant) a result does not replace the entry newCache already has
RECURSIVE applyResults_KeepsOld(_, _)
applyResults_KeepsOld(newCache, results) ==
  IF results = <<>> THEN newCache
  ELSE applyResults_KeepsOld(
         IF CacheHas(newCache, Head(results).name) THEN newCache
         ELSE CacheSet(newCache, Head(results).name, Head(results).entry),
         Tail(results))

\* lines 329-333: the results go into newCache in the order of mediaFiles
RECURSIVE applyResults(_, _)
applyResults(newCache, results) ==
  IF results = <<>> THEN newCache
  ELSE applyResults(CacheSet(newCache, Head(results).name, Head(results).entry),
                    Tail(results))

\* updateMetadataCache without its write: what it read, decided and returns
updateMetadataCache(root, fsys, disk, mediaFiles, directory, childDirPaths) ==
  LET safeDirectory == validatePath(directory).path
      dirName == basename(safeDirectory)
      parentDir == dirname(safeDirectory)
      cachePath == SidecarLoc(parentDir, dirName)
      ownCache == ReadCache(disk, cachePath)
      childCaches == loadChildCaches(disk, safeDirectory, childDirPaths)
      oldCache == mergeIntoOld(ownCache, childCaches)
      cleanedCache == cleanCache(oldCache, mediaFiles)
      results == [i \in 1..Len(mediaFiles) |->
                    processFile(root, fsys, cleanedCache, mediaFiles[i])]
      newCache == applyResults(cleanedCache, results)
  IN [cachePath |-> cachePath,
      ownExists |-> cachePath \in DOMAIN disk,
      childrenWithCache |-> { i \in 1..Len(childDirPaths) :
                               SidecarLoc(safeDirectory, basename(childDirPaths[i]))
                                 \in DOMAIN disk },
      childDirPaths |-> childDirPaths,
      ownCache |-> ownCache,
      childCaches |-> childCaches,
      oldCache |-> oldCache,
      cleanedCache |-> cleanedCache,
      results |-> results,
      cache |-> newCache,
      newFilesCount |-> Cardinality({ i \in 1..Len(results) : results[i].probed })]

\* ------------------------------------------------------------ the task pool
\* new PQueue({ concurrency: 10 })
concurrency == 10

\* A directory lib/t of MaxTaskFiles images, more than the pool runs at once.
\* f02.jpg is a broken image and the stat of f04.jpg is refused.
TaskNamePool == << "f01.jpg", "f02.jpg", "f03.jpg", "f04.jpg", "f05.jpg", "f06.jpg",
                   "f07.jpg", "f08.jpg", "f09.jpg", "f10.jpg", "f11.jpg", "f12.jpg",
                   "f13.jpg", "f14.jpg", "f15.jpg", "f16.jpg" >>
TaskRoot == << "lib" >>
TaskDir == << "lib", "t" >>
Tasks == 1..MaxTaskFiles
TaskLoc(i) == << "t", TaskNamePool[i] >>
TaskMediaFiles ==
  [i \in Tasks |-> [absolutePath |-> join(TaskDir, <<TaskNamePool[i]>>),
                    relativePath |-> <<TaskNamePool[i]>>]]
TaskFs ==
  [loc \in { TaskLoc(i) : i \in Tasks } |->
     IF loc = TaskLoc(4) THEN Denied ELSE Written(loc, 1)]
\* the files whose stored entry may be out of date
StalePatterns == { {}, {2}, {2, MaxTaskFiles} }
\* a cleanedCache: f03.jpg is new, the files of stale carry an older mtime
TaskCleanedCache(stale) ==
  SelectSeq([i \in Tasks |->
               [name |-> TaskMediaFiles[i].relativePath,
                entry |-> [fileSize |-> Len(TaskLoc(i)),
                           mtime |-> IF i \in stale THEN 0 ELSE 1,
                           size |-> RealSize]]],
            LAMBDA e : e.name # TaskMediaFiles[3].relativePath)

NoResult == [none |-> TRUE]
Lowest(S) == CHOOSE i \in S : \A j \in S : i <= j
\* the tasks the pool counts as pending: started and not yet returned
InFlight(phase) == { i \in DOMAIN phase : phase[i] \in {"stat", "probe"} }
Queued(phase) == { i \in DOMAIN phase : phase[i] = "queued" }

\* (mutant) a pool without a ceiling
doesConcurrentAllowAnother_Always(pending) == TRUE

\* the pool starts a job only below its concurrency
doesConcurrentAllowAnother(pending) == pending < concurrency

\* the pool starts its oldest queued job when it may; the job runs processFile
\* up to its first await, the stat of line 266
tryToStartAnother(phase) ==
  IF Queued(phase) # {} /\ doesConcurrentAllowAnother(Cardinality(InFlight(phase)))
  THEN [phase EXCEPT ![Lowest(Queued(phase))] = "stat"]
  ELSE phase

\* queue.add of lines 322-327 for the files from i on, in the order of mediaFiles
RECURSIVE addAll(_, _)
addAll(phase, i) ==
  IF i > Len(TaskMediaFiles) THEN phase
  ELSE addAll(tryToStartAnother([phase EXCEPT ![i] = "queued"]), i + 1)

\* a job has returned: the pool counts it out and starts another
next(phase, i) == tryToStartAnother([phase EXCEPT ![i] = "done"])

\* (mutant) the write does not wait for every task
allSettled_Any(phase) == \E i \in DOMAIN phase : phase[i] = "done"

\* await Promise.all(promises), line 328
allSettled(phase) == \A i \in DOMAIN phase : phase[i] = "done"

\* ------------------------------------------------------------ thumbnails
Null == [null |-> TRUE]
\* what the environment does to the steps of one call of getVideoThumbnail:
\* ffprobe prints a duration, prints nothing (it exits with an error) or does
\* not start; ffmpeg writes a frame, writes a file that does not decode,
\* writes nothing (it exits with an error) or does not start
ThumbOutcomes ==
  [makeTempDir : {"ok", "throws"}, makeTempFile : {"ok", "throws"},
   ffprobe : {"duration", "nothing", "throws"},
   ffmpeg : {"frame", "broken", "nothing", "throws"},
   readFile : {"ok", "throws"}]
\* the first step of the call that fails, "none" when the frame is good
firstFailure(env) ==
  IF env.makeTempDir = "throws" THEN "makeTempDir"
  ELSE IF env.makeTempFile = "throws" THEN "makeTempFile"
  ELSE IF env.ffprobe # "duration" THEN "ffprobe"
  ELSE IF env.ffmpeg \in {"nothing", "throws"} THEN "ffmpeg"
  ELSE IF env.readFile = "throws" THEN "readFile"
  ELSE IF env.ffmpeg = "broken" THEN "decode"
  ELSE "none"

\* temporaryFile: a temporary directory, then a temporary file inside it; the
\* pair is returned only when both were made
temporaryFile(env, call) ==
  [throws |-> env.makeTempDir = "throws" \/ env.makeTempFile = "throws",
   tmpFile |-> [file |-> call],
   tmpDir |-> [dir |-> call],
   created |-> (IF env.makeTempDir = "ok" THEN { [dir |-> call] } ELSE {})
                 \cup (IF env.makeTempDir = "ok" /\ env.makeTempFile = "ok"
                       THEN { [file |-> call] } ELSE {})]

\* getVideoThumbnail: the image it returns and the temporary files on disk
\* when it has returned. tmpPath and tmpDir are assigned when temporaryFile has
\* returned; ffmpeg started with the position NaN extracts nothing; sharp()
\* throws on an empty input and decodes nothing before the caller's toBuffer();
\* the finally block removes tmpPath and tmpDir when they are assigned.
getVideoThumbnail(env, call, disk) ==
  LET tmp == temporaryFile(env, call)
      tmpPath == IF tmp.throws THEN Null ELSE tmp.tmpFile
      tmpDir == IF tmp.throws THEN Null ELSE tmp.tmpDir
      probed == ~tmp.throws /\ env.ffprobe # "throws"
      duration == IF env.ffprobe = "duration" THEN "number" ELSE "NaN"
      ran == probed /\ env.ffmpeg # "throws"
      content == IF ran /\ duration = "number" /\ env.ffmpeg \in {"frame", "broken"}
                 THEN env.ffmpeg ELSE "empty"
      read == ran /\ env.readFile = "ok"
      image == IF read /\ content # "empty" THEN [frame |-> content] ELSE Null
  IN [image |-> image,
      tmpDisk |-> (disk \cup tmp.created) \ { tmpPath, tmpDir },
      failed |-> firstFailure(env)]

\* what the environment does to an image file: read and decoded, not readable,
\* or read but not decodable
ImageOutcomes == {"frame", "throws", "broken"}

\* (mutant) every file is put in the first row
row_First(idx, cellsPerRow) == 0

\* lines 601-602
row(idx, cellsPerRow) == idx \div cellsPerRow
col(idx, cellsPerRow) == idx % cellsPerRow

\* ------------------------------------------------------------ dependencies
requiredCommands == { "ffmpeg", "ffprobe" }

\* (mutant) no command is ever found missing
checkDependencies_NoneMissing(notStarting) == <<>>

\* checkDependencies: missingCommands, the commands whose -version run throws
checkDependencies(notStarting) ==
  SelectSeq(<< "ffmpeg", "ffprobe" >>, LAMBDA cmd : cmd \in notStarting)

\* ------------------------------------------------------------ mosaic
PGRID_VERSION == 2
\* stat.birthtime of a directory: fixed for the life of the directory
Birthtime(loc) == Len(loc) + 1

\* The array a step works on: one of the scan result's own arrays, or a new
\* array that no part of the scan result refers to.
NewArray == [of |-> "new"]
\* (mutant) the walk hands out the scanner's own list of the directory
collectedArray_Direct(startDirectory) == [of |-> "mediaFilesByDir", key |-> startDirectory]

\* lines 475, 485: collectMediaFilesIteratively returns allFiles, a new array
\* of new objects
collectedArray(startDirectory) == NewArray
Reversed(list) == [i \in 1..Len(list) |-> list[Len(list) + 1 - i]]
\* line 584: Array.sort reorders the array it is called on, in place; the
\* scan result as it is afterwards, for the order the comparator leaves
sortInPlace(scan, array, reversed) ==
  IF array = NewArray \/ array.key \notin DOMAIN scan.mediaFilesByDir THEN scan
  ELSE [scan EXCEPT !.mediaFilesByDir =
          MapSet(@, array.key,
                 IF reversed THEN Reversed(scan.mediaFilesByDir[array.key])
                 ELSE scan.mediaFilesByDir[array.key])]

\* lines 583-585: a random order, then the first totalCells files
Selections(mediaFiles) ==
  LET n == Len(mediaFiles)
      k == IF n < totalCells THEN n ELSE totalCells
  IN { sel \in SUBSET (1..n) : Cardinality(sel) = k }

\* (mutant) the mosaic is written whatever was decoded
processMediaFiles_AlwaysWrites(root, fsys, mediaFiles, directory, cache, dirBirthtimes, selected) ==
  [processedImages |-> Cardinality({ i \in selected :
                         /\ ~IsCorrupt(root, mediaFiles[i].absolutePath)
                         /\ ~IsDenied(root, fsys, mediaFiles[i].absolutePath) }),
   written |-> TRUE,
   outputPath |-> SidecarLoc(dirname(directory), basename(directory)),
   metadata |-> [version |-> PGRID_VERSION, files |-> cache, directories |-> dirBirthtimes]]

\* processMediaFiles without its write: what it decoded and would write
processMediaFiles(root, fsys, mediaFiles, directory, cache, dirBirthtimes, selected) ==
  LET decoded == { i \in selected : /\ ~IsCorrupt(root, mediaFiles[i].absolutePath)
                                    /\ ~IsDenied(root, fsys, mediaFiles[i].absolutePath) }
      processedImages == Cardinality(decoded)
      outputPath == SidecarLoc(dirname(directory), basename(directory))
  IN [processedImages |-> processedImages,
      written |-> processedImages > 0,
      outputPath |-> outputPath,
      metadata |-> [version |-> PGRID_VERSION, files |-> cache,
                    directories |-> dirBirthtimes]]

\* lines 517-528: the birthtimes of all subdirectories, by relative path
birthtimesOf(root, safeDirectory, scan) ==
  LET allSubdirs == collectAllSubdirectories(safeDirectory, scan)
  IN [i \in 1..Len(allSubdirs) |->
        [path |-> relative(safeDirectory, allSubdirs[i]),
         birthtime |-> Birthtime(RealLoc(TreeLoc(root, Resolve(allSubdirs[i]))))]]

\* processDirectoryWithScanResult for a directory whose path validates
processDirectoryWithScanResult(root, fsys, disk, directory, scan, selected) ==
  LET safeDirectory == validatePath(directory).path
      mediaFiles == collectMediaFilesIteratively(safeDirectory, scan, safeDirectory)
      childDirPaths == MapGet(scan.subdirsByDir, safeDirectory)
      dirBirthtimes == birthtimesOf(root, safeDirectory, scan)
      cacheResult == updateMetadataCache(root, fsys, disk, mediaFiles, safeDirectory,
                                         childDirPaths)
      mosaic == processMediaFiles(root, fsys, mediaFiles, safeDirectory,
                                  cacheResult.cache, dirBirthtimes, selected)
  IN IF Len(mediaFiles) = 0
     THEN [reconciled |-> FALSE, mediaFiles |-> mediaFiles, newFilesCount |-> 0,
           cache |-> <<>>, dirBirthtime |-> 0]
     ELSE [reconciled |-> TRUE, mediaFiles |-> mediaFiles,
           newFilesCount |-> cacheResult.newFilesCount,
           cache |-> cacheResult.cache,
           dirBirthtime |-> Birthtime(TreeLoc(root, Resolve(safeDirectory))),
           update |-> cacheResult, mosaic |-> mosaic]

\* getDirectoryInfo
RECURSIVE latestMtimeOf(_)
latestMtimeOf(cache) ==
  IF cache = <<>> THEN 0
  ELSE LET rest == latestMtimeOf(Tail(cache))
       IN IF Head(cache).entry.mtime > rest THEN Head(cache).entry.mtime ELSE rest
getDirectoryInfo(cache) == [latestMtime |-> latestMtimeOf(cache), fileCount |-> Len(cache)]

\* lines 778-802: the own entry, then the lists stored for the subdirectories
ownIndexEntries(root, directory, result) ==
  LET dirInfo == getDirectoryInfo(result.cache)
      relativePath == relative(root, directory)
  IN IF dirInfo.fileCount > 0
     THEN << [path |-> IF relativePath = <<>> THEN <<".">> ELSE relativePath,
              latestMtime |-> dirInfo.latestMtime,
              fileCount |-> dirInfo.fileCount,
              birthtime |-> result.dirBirthtime] >>
     ELSE <<>>
subdirIndexEntries(results, subdirs) ==
  Flatten([i \in 1..Len(subdirs) |->
             IF subdirs[i] \in DOMAIN results THEN results[subdirs[i]].indexEntries
             ELSE <<>>])
\* writeDirectoryIndex: the index file lies inside the directory
IndexLoc(directory) == Resolve(directory)

\* ------------------------------------------------------------ the run
ZeroStats ==
  [totalNewFiles |-> 0, pgridsGenerated |-> 0, pgridsSkipped |-> 0,
   totalFilesProcessed |-> 0, indexEntries |-> <<>>]
NoLastRun == [valid |-> FALSE, cacheFiles |-> <<>>]

NoWalk == [kind |-> "none", base |-> <<>>, queue |-> <<>>, out |-> <<>>]
ScanIdle ==
  /\ scanPc = "idle"
  /\ scanQueue = <<>>
  /\ scanAcc = EmptyScan
  /\ walk = NoWalk
  /\ unreadable = {}
TaskIdle ==
  /\ taskPc = "idle"
  /\ taskCleaned = <<>>
  /\ taskNewCache = <<>>
  /\ taskPhase = <<>>
  /\ taskLocal = <<>>
  /\ taskCount = 0
  /\ taskDisk = NoResult
  /\ taskOvertook = FALSE
NoMosaic == [pc |-> "idle"]
MosaicIdle == mosaicRun = NoMosaic /\ tmpDisk = {}
NoTrailer == [pc |-> "idle"]
TrailerIdle == trailer = NoTrailer
NoConfig == [jobs |-> <<>>]
NoResponse == [seq |-> 0, job |-> "", status |-> 0, body |-> <<>>]
CronIdle ==
  /\ config = NoConfig
  /\ runningJobs = <<>>
  /\ jobRunsByJob = <<>>
  /\ pendingRuns = {}
  /\ now = 0
  /\ httpResponse = NoResponse
NoPump == [caller |-> "none"]
NoLogger == [activeDownloads |-> <<>>, completedDownloads |-> <<>>, totalDownloads |-> 0,
             completedCount |-> 0]
PumpIdle == pumpCfg = NoPump /\ procs = <<>> /\ logger = NoLogger
ServiceIdle == CronIdle /\ PumpIdle
AuxIdle == ScanIdle /\ TaskIdle /\ MosaicIdle /\ TrailerIdle /\ ServiceIdle

Init ==
  /\ rootDir \in RootArgs
  /\ files = [f \in TreeFiles |-> Written(f, 1)]
  /\ dirs = {}
  /\ cacheFiles = <<>>
  /\ indexFiles = <<>>
  /\ mosaicFiles = <<>>
  /\ pc = "idle"
  /\ scanResult = EmptyScan
  /\ allDirectories = <<>>
  /\ dirResults = <<>>
  /\ stats = ZeroStats
  /\ log = <<>>
  /\ runs = 0
  /\ changes = 0
  /\ lastRun = NoLastRun
  /\ cannotStart = {}
  /\ AuxIdle

\* main up to the loop of processAllDirectories: the scan and the sort
StartRun ==
  /\ pc # "process"
  /\ runs < MaxRuns
  /\ runs' = runs + 1
  /\ cannotStart' \in SUBSET requiredCommands
  /\ checkDependencies(cannotStart') = <<>>
  /\ \E artifacts \in { ArtifactFiles(rootDir, cacheFiles, indexFiles, mosaicFiles) } :
       scanResult' = scanAllDirectoriesAndFiles(rootDir, files, dirs, unreadable, artifacts)
  /\ allDirectories' = sortDeepestFirst(scanResult'.directories)
  /\ dirResults' = <<>>
  /\ stats' = ZeroStats
  /\ log' = <<>>
  /\ lastRun' = IF pc = "done" THEN [valid |-> TRUE, cacheFiles |-> cacheFiles]
                ELSE NoLastRun
  /\ pc' = "process"
  /\ UNCHANGED << rootDir, files, dirs, cacheFiles, indexFiles, mosaicFiles, changes >>
  /\ UNCHANGED auxVars

\* main when a required command does not start: checkDependencies exits with
\* code 1 (line 173) before Deno.stat(rootDir) and processAllDirectories
DependencyMissing ==
  /\ pc # "process"
  /\ runs < MaxRuns
  /\ runs' = runs + 1
  /\ cannotStart' \in SUBSET requiredCommands
  /\ checkDependencies(cannotStart') # <<>>
  /\ pc' = "exit1"
  /\ scanResult' = EmptyScan
  /\ allDirectories' = <<>>
  /\ dirResults' = <<>>
  /\ stats' = ZeroStats
  /\ log' = <<>>
  /\ lastRun' = NoLastRun
  /\ UNCHANGED << rootDir, files, dirs, cacheFiles, indexFiles, mosaicFiles, changes >>
  /\ UNCHANGED auxVars

\* one iteration of the loop of lines 771-829 that ends in the throw of
\* validatePath, which nothing catches before main's catch (exit code 1)
ProcessDirectoryThrows ==
  /\ pc = "process"
  /\ Len(log) < Len(allDirectories)
  /\ validatePath(allDirectories[Len(log) + 1]).throws
  /\ pc' = "failed"
  /\ UNCHANGED << rootDir, files, dirs, cacheFiles, indexFiles, mosaicFiles, scanResult,
                  allDirectories, dirResults, stats, log, runs, changes, lastRun, cannotStart >>
  /\ UNCHANGED auxVars

\* one iteration of the loop of lines 771-829
ProcessDirectory ==
  /\ pc = "process"
  /\ Len(log) < Len(allDirectories)
  /\ LET directory == allDirectories[Len(log) + 1]
         safeDirectory == validatePath(directory).path
         mediaFiles == collectMediaFilesIteratively(safeDirectory, scanResult, safeDirectory)
     IN /\ ~validatePath(directory).throws
        /\ \E selected \in Selections(mediaFiles) :
           \E result \in { processDirectoryWithScanResult(rootDir, files, cacheFiles,
                                                          directory, scanResult, selected) } :
           \E own \in { ownIndexEntries(rootDir, directory, result) } :
           \E allIndexEntries \in { own \o subdirIndexEntries(dirResults,
                                       MapGet(scanResult.subdirsByDir, directory)) } :
             LET filesInDir == Len(result.cache)
             IN /\ cacheFiles' = IF result.reconciled
                                 THEN writeFile(cacheFiles, result.update.cachePath, result.cache)
                                 ELSE cacheFiles
                /\ mosaicFiles' = IF result.reconciled /\ result.mosaic.written
                                  THEN writeFile(mosaicFiles, result.mosaic.outputPath,
                                                 result.mosaic.metadata)
                                  ELSE mosaicFiles
                /\ stats' = [stats EXCEPT
                     !.totalNewFiles = @ + result.newFilesCount,
                     !.totalFilesProcessed = @ + filesInDir,
                     !.pgridsGenerated = IF filesInDir > 0 THEN @ + 1 ELSE @,
                     !.pgridsSkipped = IF filesInDir = 0 THEN @ + 1 ELSE @]
                /\ indexFiles' = IF Len(allIndexEntries) > 0
                                 THEN writeFile(indexFiles, IndexLoc(directory), allIndexEntries)
                                 ELSE indexFiles
                /\ dirResults' = MapSet(dirResults, directory,
                                        [cache |-> result.cache,
                                         indexEntries |-> allIndexEntries])
                /\ \E reversed \in BOOLEAN :
                     scanResult' = IF result.reconciled
                                   THEN sortInPlace(scanResult, collectedArray(safeDirectory),
                                                    reversed)
                                   ELSE scanResult
                /\ log' = Append(log, [directory |-> directory,
                                       result |-> result,
                                       selected |-> selected,
                                       ownEntries |-> own,
                                       indexEntries |-> allIndexEntries,
                                       indexWritten |-> Len(allIndexEntries) > 0])
  /\ UNCHANGED << rootDir, files, dirs, pc, allDirectories, runs, changes,
                  lastRun, cannotStart >>
  /\ UNCHANGED auxVars

\* lines 842-851 and the summary of main
Finish ==
  /\ pc = "process"
  /\ Len(log) = Len(allDirectories)
  /\ stats' = [stats EXCEPT !.indexEntries =
                 IF rootDir \in DOMAIN dirResults THEN dirResults[rootDir].indexEntries
                 ELSE <<>>]
  /\ pc' = "done"
  /\ UNCHANGED << rootDir, files, dirs, cacheFiles, indexFiles, mosaicFiles, scanResult,
                  allDirectories, dirResults, log, runs, changes, lastRun, cannotStart >>
  /\ UNCHANGED auxVars

\* ------------------------------------------------------------ the user, between runs
Changed ==
  /\ pc # "process"
  /\ changes < MaxChanges
  /\ changes' = changes + 1
  /\ pc' = "idle"
  /\ cannotStart' = {}
  /\ UNCHANGED << rootDir, cacheFiles, indexFiles, mosaicFiles, scanResult,
                  allDirectories, dirResults, stats, log, runs, lastRun >>
  /\ UNCHANGED auxVars

RemoveFile ==
  \E f \in TreeFiles \ HiddenFiles :
    /\ files[f] # Absent
    /\ files' = [files EXCEPT ![f] = Absent]
    /\ UNCHANGED dirs
    /\ Changed

\* a file is created or written again; the time is the number of the change
PutFile ==
  \E f \in TreeFiles \ HiddenFiles :
    /\ files' = [files EXCEPT ![f] = Written(f, changes + 2)]
    /\ UNCHANGED dirs
    /\ Changed

\* a file becomes impossible to stat and to read, while it stays listed
DenyFile ==
  \E f \in DeniableFiles :
    /\ files[f] \notin {Absent, Denied}
    /\ files' = [files EXCEPT ![f] = Denied]
    /\ UNCHANGED dirs
    /\ Changed

MakeDir ==
  \E d \in OptionalDirs \ dirs :
    /\ dirs' = dirs \cup {d}
    /\ UNCHANGED files
    /\ Changed

\* the user deletes a cache sidecar
RemoveCacheFile ==
  \E loc \in DOMAIN cacheFiles :
    /\ pc # "process"
    /\ changes < MaxChanges
    /\ changes' = changes + 1
    /\ pc' = "idle"
    /\ cacheFiles' = [l \in DOMAIN cacheFiles \ {loc} |-> cacheFiles[l]]
    /\ cannotStart' = {}
    /\ UNCHANGED << rootDir, files, dirs, indexFiles, mosaicFiles, scanResult,
                    allDirectories, dirResults, stats, log, runs, lastRun >>
    /\ UNCHANGED auxVars

Next ==
  \/ StartRun
  \/ DependencyMissing
  \/ ProcessDirectory
  \/ ProcessDirectoryThrows
  \/ Finish
  \/ RemoveFile
  \/ PutFile
  \/ DenyFile
  \/ MakeDir
  \/ RemoveCacheFile

Spec == Init /\ [][Next]_vars

\* ------------------------------------------------------------ the scan, pass by pass
\* The scan of one tree and one walk over its result, each loop one pass at a
\* time. The tree is fresh or holds the files an earlier run wrote for every
\* directory it processed (their content plays no part in the scan). A path longer than MaxDepth pieces is not listed.
PreviousDirs(root, fsys, present) ==
  { validatePath(d).path :
      d \in { d \in { root } \cup { join(root, t) :
                                    t \in { t \in TreeDirs \ { <<>> } :
                                              /\ \A i \in 1..Len(t) : t[i] \notin HiddenNames
                                              /\ t \in OptionalDirs => t \in present } } :
                ~validatePath(d).throws } }
ScanInit ==
  /\ rootDir \in RootArgs
  /\ files = [f \in TreeFiles |-> Written(f, 1)]
  /\ dirs \in SUBSET OptionalDirs
  /\ \E ds \in { {}, PreviousDirs(rootDir, files, dirs) } :
       /\ cacheFiles = [k \in { SidecarLoc(dirname(d), basename(d)) : d \in ds } |-> <<>>]
       /\ indexFiles = [k \in { IndexLoc(d) : d \in ds } |-> <<>>]
       /\ mosaicFiles = [k \in { SidecarLoc(dirname(d), basename(d)) : d \in ds } |-> <<>>]
  /\ pc = "idle"
  /\ scanResult = EmptyScan
  /\ allDirectories = <<>>
  /\ dirResults = <<>>
  /\ stats = ZeroStats
  /\ log = <<>>
  /\ runs = 0
  /\ changes = 0
  /\ lastRun = NoLastRun
  /\ cannotStart = {}
  /\ scanPc = "scan"
  /\ scanQueue = <<rootDir>>
  /\ scanAcc = EmptyScan
  /\ walk = NoWalk
  /\ unreadable \in SUBSET UnreadableDirs
  /\ TaskIdle
  /\ MosaicIdle
  /\ TrailerIdle
  /\ ServiceIdle

\* one pass of the loop of lines 393-454
ScanStep ==
  /\ scanPc = "scan"
  /\ scanQueue # <<>>
  /\ depth(Head(scanQueue)) <= MaxDepth
  /\ \E st \in { scanStep(rootDir, files, dirs, unreadable,
                            ArtifactFiles(rootDir, cacheFiles, indexFiles, mosaicFiles),
                            scanQueue, scanAcc) } :
       /\ scanQueue' = st.queue
       /\ scanAcc' = st.acc
  /\ UNCHANGED << scanPc, walk, unreadable, mainVars, serviceVars, taskVars, mosaicVars, trailerVars >>

\* the scan returns (line 467); a later stage starts a walk over its result
ScanReturn ==
  /\ scanPc = "scan"
  /\ scanQueue = <<>>
  /\ \E d \in SeqToSet(scanAcc.directories), kind \in {"files", "subdirs"} :
       /\ ~validatePath(d).throws
       /\ walk' = [kind |-> kind, base |-> validatePath(d).path,
                   queue |-> <<validatePath(d).path>>, out |-> <<>>]
  /\ scanPc' = "walk"
  /\ UNCHANGED << scanQueue, scanAcc, unreadable, mainVars, serviceVars, taskVars, mosaicVars, trailerVars >>

\* one pass of the loop of collectMediaFilesIteratively or collectAllSubdirectories
WalkStep ==
  /\ scanPc = "walk"
  /\ walk.queue # <<>>
  /\ \E st \in { IF walk.kind = "files"
                  THEN collectStep(scanAcc, walk.base, walk.queue, walk.out)
                  ELSE subdirStep(scanAcc, walk.queue, walk.out) } :
       walk' = [walk EXCEPT !.queue = st.queue, !.out = st.out]
  /\ UNCHANGED << scanPc, scanQueue, scanAcc, unreadable, mainVars, serviceVars, taskVars, mosaicVars, trailerVars >>

\* the walk returns
WalkReturn ==
  /\ scanPc = "walk"
  /\ walk.queue = <<>>
  /\ scanPc' = "done"
  /\ UNCHANGED << scanQueue, scanAcc, walk, unreadable, mainVars, serviceVars, taskVars, mosaicVars, trailerVars >>

ScanNext ==
  \/ ScanStep
  \/ ScanReturn
  \/ WalkStep
  \/ WalkReturn

ScanSpec == ScanInit /\ [][ScanNext]_vars
\* every await of the loops returns: the passes follow one another
ScanFair == ScanSpec /\ WF_vars(ScanNext)

\* ------------------------------------------------------------ the tasks, await by await
\* updateMetadataCache of lib/t from line 255 on: the filesystem stays as it is
\* while the tasks run. The state after line 327: every file has been added to
\* the pool, which has started the first of them.
TaskInit ==
  /\ rootDir = TaskRoot
  /\ files = TaskFs
  /\ dirs = {}
  /\ cacheFiles = <<>>
  /\ indexFiles = <<>>
  /\ mosaicFiles = <<>>
  /\ pc = "idle"
  /\ scanResult = EmptyScan
  /\ allDirectories = <<>>
  /\ dirResults = <<>>
  /\ stats = ZeroStats
  /\ log = <<>>
  /\ runs = 0
  /\ changes = 0
  /\ lastRun = NoLastRun
  /\ cannotStart = {}
  /\ ScanIdle
  /\ MosaicIdle
  /\ TrailerIdle
  /\ ServiceIdle
  /\ taskPc = "run"
  /\ \E stale \in StalePatterns : taskCleaned = TaskCleanedCache(stale)
  /\ taskNewCache = taskCleaned
  /\ taskPhase = addAll([i \in Tasks |-> "none"], 1)
  /\ taskLocal = [i \in Tasks |-> NoResult]
  /\ taskCount = 0
  /\ taskDisk = NoResult
  /\ taskOvertook = FALSE

\* task i returns: its promise settles and the pool moves on
TaskReturns(i, result) ==
  /\ taskLocal' = [taskLocal EXCEPT ![i] = result]
  /\ taskPhase' = next(taskPhase, i)
  /\ taskOvertook' = (taskOvertook \/ \E j \in 1..(i - 1) : taskPhase[j] # "done")

\* the stat of task i returns (lines 265-270): the task looks its file up in
\* newCache and returns the stored size (278) or counts a new file (281) and
\* starts the probe
StatReturns(i) ==
  /\ taskPc # "idle"
  /\ taskPhase[i] = "stat"
  /\ \E st \in { statOrZero(rootDir, files, TaskMediaFiles[i]) } :
       LET name == TaskMediaFiles[i].relativePath
           entry == [fileSize |-> st.fileSize, mtime |-> st.mtime, size |-> NoSize]
       IN IF isCacheHit(taskNewCache, name, st.fileSize, st.mtime)
          THEN /\ TaskReturns(i, [name |-> name,
                                  entry |-> [entry EXCEPT !.size =
                                               CacheEntryOf(taskNewCache, name).size]])
               /\ UNCHANGED taskCount
          ELSE /\ taskCount' = taskCount + 1
               /\ taskLocal' = [taskLocal EXCEPT ![i] = [name |-> name, entry |-> entry]]
               /\ taskPhase' = [taskPhase EXCEPT ![i] = "probe"]
               /\ UNCHANGED taskOvertook
  /\ UNCHANGED << taskPc, taskCleaned, taskNewCache, taskDisk, scanVars, mainVars, serviceVars, mosaicVars, trailerVars >>

\* the probe of task i returns or throws (lines 282-318) and the task returns
StatProbed(i) ==
  [taskLocal[i] EXCEPT !.entry.size = probe(rootDir, files, TaskMediaFiles[i])]
ProbeReturns(i) ==
  /\ taskPc # "idle"
  /\ taskPhase[i] = "probe"
  /\ TaskReturns(i, StatProbed(i))
  /\ UNCHANGED << taskPc, taskCleaned, taskNewCache, taskCount, taskDisk,
                  scanVars, mainVars, serviceVars, mosaicVars, trailerVars >>

\* lines 328-334: Promise.all resolves with the results in the order of
\* mediaFiles, they go into newCache and newCache is written to cachePath
JoinAndWrite ==
  /\ taskPc = "run"
  /\ allSettled(taskPhase)
  /\ \E results \in { SelectSeq(taskLocal, LAMBDA r : r # NoResult) } :
       /\ taskNewCache' = applyResults(taskNewCache, results)
       /\ taskDisk' = taskNewCache'
  /\ taskPc' = "written"
  /\ UNCHANGED << taskCleaned, taskPhase, taskLocal, taskCount, taskOvertook,
                  scanVars, mainVars, serviceVars, mosaicVars, trailerVars >>

\* ------------------------------------------------------------ the metadata trailer
\* A text is a sequence of characters and a file a sequence of bytes. A
\* character is a one-character string, and so is the byte of an ASCII
\* character; EACUTE stands for the character U+00E9, whose UTF-8 encoding is
\* the two bytes 0xC3 0xA9.
NL == "\n"
QUOTE == "\""
BACKSLASH == "\\"
EACUTE == "U+00E9"
Chars(str) == [i \in 1..Len(str) |-> SubSeq(str, i, i)]

\* TextEncoder.encode and TextDecoder.decode
\* the pieces of a list joined, by halves
RECURSIVE Join(_)
Join(pieces) ==
  IF pieces = <<>> THEN <<>>
  ELSE IF Len(pieces) = 1 THEN pieces[1]
  ELSE Join(SubSeq(pieces, 1, Len(pieces) \div 2))
         \o Join(SubSeq(pieces, (Len(pieces) \div 2) + 1, Len(pieces)))
encode(text) ==
  Join([i \in 1..Len(text) |->
          IF text[i] = EACUTE THEN << "0xC3", "0xA9" >> ELSE << text[i] >>])
\* a 0xC3 0xA9 pair is one character; either byte alone is not a character
decode(bytes) ==
  SelectSeq([i \in 1..Len(bytes) |->
               IF bytes[i] = "0xC3"
               THEN IF i < Len(bytes) /\ bytes[i + 1] = "0xA9" THEN EACUTE ELSE "U+FFFD"
               ELSE IF bytes[i] = "0xA9"
               THEN IF i > 1 /\ bytes[i - 1] = "0xC3" THEN "" ELSE "U+FFFD"
               ELSE bytes[i]],
            LAMBDA c : c # "")

\* A JSON value is a number [num |-> n] or an object [obj |-> members], the
\* members a sequence of [key, value] in the order of the object's keys.
Num(n) == [num |-> n]
Obj(members) == [obj |-> members]
Digits == Chars("0123456789")
RECURSIVE digitsOf(_)
digitsOf(n) ==
  IF n < 10 THEN << Digits[n + 1] >> ELSE digitsOf(n \div 10) \o << Digits[(n % 10) + 1] >>

\* (mutant) the characters of a string are written as they are
escape_Raw(c) == << c >>

\* JSON.stringify of one character of a string (QuoteJSONString)
escape(c) ==
  IF c = QUOTE THEN << BACKSLASH, QUOTE >>
  ELSE IF c = BACKSLASH THEN << BACKSLASH, BACKSLASH >>
  ELSE IF c = NL THEN << BACKSLASH, "n" >>
  ELSE << c >>
quote(str) ==
  << QUOTE >> \o Join([i \in 1..Len(str) |-> escape(str[i])]) \o << QUOTE >>

\* JSON.stringify(value, null, gap): gap is <<>> for the compact form
RECURSIVE stringify(_, _, _)
RECURSIVE joinMembers(_, _, _)
joinMembers(members, gap, indent) ==
  quote(Head(members).key) \o << ":" >> \o (IF gap = <<>> THEN <<>> ELSE << " " >>)
    \o stringify(Head(members).value, gap, indent)
    \o (IF Tail(members) = <<>> THEN <<>>
        ELSE << "," >> \o (IF gap = <<>> THEN <<>> ELSE << NL >> \o indent)
               \o joinMembers(Tail(members), gap, indent))
stringify(value, gap, stepback) ==
  IF "num" \in DOMAIN value THEN digitsOf(value.num)
  ELSE IF value.obj = <<>> THEN << "{", "}" >>
  ELSE IF gap = <<>> THEN << "{" >> \o joinMembers(value.obj, gap, <<>>) \o << "}" >>
  ELSE << "{", NL >> \o stepback \o gap
         \o joinMembers(value.obj, gap, stepback \o gap)
         \o << NL >> \o stepback \o << "}" >>

\* JSON.parse, by recursive descent; Fail stands for its SyntaxError
Fail == [ok |-> FALSE]
Parsed(value, after) == [ok |-> TRUE, value |-> value, next |-> after]
RECURSIVE skipWs(_, _)
skipWs(s, i) ==
  IF i <= Len(s) /\ s[i] \in { " ", NL, "\t", "\r" } THEN skipWs(s, i + 1) ELSE i
\* a string from the character after its opening quote on
RECURSIVE parseString(_, _, _)
parseString(s, i, acc) ==
  IF i > Len(s) THEN Fail
  ELSE IF s[i] = QUOTE THEN Parsed(acc, i + 1)
  ELSE IF s[i] \in { NL, "\t", "\r" } THEN Fail
  ELSE IF s[i] = BACKSLASH
       THEN IF i + 1 > Len(s) THEN Fail
            ELSE IF s[i + 1] \in { QUOTE, BACKSLASH } THEN parseString(s, i + 2, Append(acc, s[i + 1]))
            ELSE IF s[i + 1] = "n" THEN parseString(s, i + 2, Append(acc, NL))
            ELSE Fail
  ELSE parseString(s, i + 1, Append(acc, s[i]))
DigitValue(c) == CHOOSE n \in 0..9 : Digits[n + 1] = c
RECURSIVE parseDigits(_, _, _)
parseDigits(s, i, acc) ==
  IF i <= Len(s) /\ s[i] \in { Digits[k] : k \in 1..10 }
  THEN parseDigits(s, i + 1, acc * 10 + DigitValue(s[i]))
  ELSE Parsed(Num(acc), i)
RECURSIVE parseValue(_, _)
RECURSIVE parseMembers(_, _, _)
parseValue(s, i) ==
  Only({ IF j > Len(s) THEN Fail
         ELSE IF s[j] = "{" THEN parseMembers(s, j + 1, <<>>)
         ELSE IF s[j] \in { Digits[k] : k \in 1..10 } THEN parseDigits(s, j, 0)
         ELSE Fail : j \in { skipWs(s, i) } })
\* the members of an object from the character after "{" or "," on
parseMembers(s, i, acc) ==
  Only({ IF j > Len(s) THEN Fail
         ELSE IF s[j] = "}" THEN (IF acc = <<>> THEN Parsed(Obj(<<>>), j + 1) ELSE Fail)
         ELSE IF s[j] # QUOTE THEN Fail
         ELSE Only({ IF ~k.ok THEN Fail
                     ELSE Only({ IF c > Len(s) \/ s[c] # ":" THEN Fail
                                 ELSE Only({ IF ~v.ok THEN Fail
                                             ELSE Only({ IF e > Len(s) THEN Fail
                                                         ELSE IF s[e] = ","
                                                              THEN parseMembers(s, e + 1,
                                                                     Append(acc, [key |-> k.value, value |-> v.value]))
                                                         ELSE IF s[e] = "}"
                                                              THEN Parsed(Obj(Append(acc, [key |-> k.value, value |-> v.value])), e + 1)
                                                         ELSE Fail :
                                                         e \in { skipWs(s, v.next) } }) :
                                             v \in { parseValue(s, c + 1) } }) :
                                 c \in { skipWs(s, k.next) } }) :
                     k \in { parseString(s, j + 1, <<>>) } }) :
         j \in { skipWs(s, i) } })
JSONparse(text) ==
  Only({ IF r.ok /\ skipWs(text, r.next) > Len(text) THEN [ok |-> TRUE, value |-> r.value]
         ELSE Fail : r \in { parseValue(text, 1) } })
\* value.name of a parsed object
field(value, name) ==
  LET hits == { k \in 1..Len(value.obj) : value.obj[k].key = name }
  IN value.obj[CHOOSE k \in hits : \A l \in hits : l <= k].value

\* lines 669-670
marker == encode(<< NL >> \o Chars("<!--PGGRID_METADATA:"))
endMarker == encode(Chars("-->") \o << NL >>)
\* lines 661-667
metadataOf(cache, dirBirthtimes) ==
  Obj(<< [key |-> Chars("version"), value |-> Num(PGRID_VERSION)],
         [key |-> Chars("files"), value |-> cache],
         [key |-> Chars("directories"), value |-> dirBirthtimes] >>)
\* lines 666-683
finalBufferOf(jpegBuffer, metadata) ==
  jpegBuffer \o marker \o encode(stringify(metadata, <<>>, <<>>)) \o endMarker

\* Uint8Array indexOf of a byte pattern from a position on, 0 when not found
indexOf(bytes, pattern, from) ==
  LET hits == { i \in from..(Len(bytes) - Len(pattern) + 1) :
                  SubSeq(bytes, i, i + Len(pattern) - 1) = pattern }
  IN IF hits = {} THEN 0 ELSE CHOOSE i \in hits : \A j \in hits : i <= j
\* a reader of the mosaic file: the start sentinel, then the first closing
\* sentinel behind it, and JSON.parse of the text between the two
readTrailer(bytes) ==
  Only({ IF start = 0 THEN Fail
         ELSE Only({ IF end = 0 THEN Fail
                     ELSE JSONparse(decode(SubSeq(bytes, start + Len(marker), end - 1))) :
                     end \in { indexOf(bytes, endMarker, start + Len(marker)) } }) :
         start \in { indexOf(bytes, marker, 1) } })

\* the file names tried as keys: every text of up to MaxNameLen characters
\* and the texts of the two sentinels
NameChars == { "a", "-", ">", NL, QUOTE, BACKSLASH, EACUTE }
RECURSIVE Names(_)
Names(n) ==
  IF n = 0 THEN { <<>> }
  ELSE Names(n - 1) \cup { Append(t, c) : t \in Names(n - 1), c \in NameChars }
SentinelNames ==
  { Chars("-->") \o << NL >>, << NL >> \o Chars("<!--PGGRID_METADATA:"),
    << QUOTE >> \o Chars("-->") \o << NL, QUOTE >> }
KeyChoices == (Names(MaxNameLen) \ { <<>> }) \cup SentinelNames
JsonEntry(t) ==
  Obj(<< [key |-> Chars("fileSize"), value |-> Num(10 + t)],
         [key |-> Chars("mtime"), value |-> Num(t)] >>)
CacheChoices ==
  { Obj(<< [key |-> k, value |-> JsonEntry(1)] >>) : k \in KeyChoices }
    \cup { Obj(<< [key |-> k, value |-> JsonEntry(1)],
                  [key |-> Chars("a.jpg"), value |-> JsonEntry(2)] >>) : k \in KeyChoices }
BirthtimeChoices ==
  { Obj(<<>>), Obj(<< [key |-> Chars("-->") \o << NL >>, value |-> Num(3)] >>) }
\* the image bytes: some bytes, or bytes that hold the closing sentinel
JpegChoices == { Chars("JPG"), << "J" >> \o endMarker \o << "G" >> }

TrailerInit ==
  /\ rootDir = TaskRoot
  /\ files = [f \in TreeFiles |-> Written(f, 1)]
  /\ dirs = {}
  /\ cacheFiles = <<>>
  /\ indexFiles = <<>>
  /\ mosaicFiles = <<>>
  /\ pc = "idle"
  /\ scanResult = EmptyScan
  /\ allDirectories = <<>>
  /\ dirResults = <<>>
  /\ stats = ZeroStats
  /\ log = <<>>
  /\ runs = 0
  /\ changes = 0
  /\ lastRun = NoLastRun
  /\ cannotStart = {}
  /\ ScanIdle
  /\ TaskIdle
  /\ MosaicIdle
  /\ ServiceIdle
  /\ \E cache \in CacheChoices, dirBirthtimes \in BirthtimeChoices, jpegBuffer \in JpegChoices :
       trailer = [pc |-> "start", cache |-> cache, dirBirthtimes |-> dirBirthtimes,
                  jpegBuffer |-> jpegBuffer, sidecar |-> <<>>, finalBuffer |-> <<>>,
                  found |-> Fail, loaded |-> Fail]

\* line 333: the cache is written to the sidecar file
SaveCache ==
  /\ trailer.pc = "start"
  /\ trailer' = [trailer EXCEPT
                   !.pc = "cached",
                   !.sidecar = encode(stringify(trailer.cache, << " ", " " >>, <<>>))]
  /\ UNCHANGED << mainVars, serviceVars, scanVars, taskVars, mosaicVars >>

\* lines 660-686: the same cache goes into the mosaic file's trailer
WriteTrailer ==
  /\ trailer.pc = "cached"
  /\ trailer' = [trailer EXCEPT
                   !.pc = "written",
                   !.finalBuffer = finalBufferOf(trailer.jpegBuffer,
                                     metadataOf(trailer.cache, trailer.dirBirthtimes))]
  /\ UNCHANGED << mainVars, serviceVars, scanVars, taskVars, mosaicVars >>

\* a reader takes the metadata out of the mosaic file
ReadTrailer ==
  /\ trailer.pc = "written"
  /\ trailer' = [trailer EXCEPT !.pc = "read", !.found = readTrailer(trailer.finalBuffer)]
  /\ UNCHANGED << mainVars, serviceVars, scanVars, taskVars, mosaicVars >>

\* lines 195-196: the sidecar file is read back
LoadSidecar ==
  /\ trailer.pc = "read"
  /\ trailer' = [trailer EXCEPT !.pc = "loaded", !.loaded = JSONparse(decode(trailer.sidecar))]
  /\ UNCHANGED << mainVars, serviceVars, scanVars, taskVars, mosaicVars >>

TrailerNext ==
  \/ SaveCache
  \/ WriteTrailer
  \/ ReadTrailer
  \/ LoadSidecar

TrailerSpec == TrailerInit /\ [][TrailerNext]_vars

\* ------------------------------------------------------------ the mosaic, file by file
\* processMediaFiles from line 599 on, for every list of up to totalCells
\* selected files, each an image or a video
SelectedChoices ==
  UNION { [1..n -> {"image", "video"}] : n \in 0..totalCells }
MosaicInit ==
  /\ rootDir = TaskRoot
  /\ files = [f \in TreeFiles |-> Written(f, 1)]
  /\ dirs = {}
  /\ cacheFiles = <<>>
  /\ indexFiles = <<>>
  /\ mosaicFiles = <<>>
  /\ pc = "idle"
  /\ scanResult = EmptyScan
  /\ allDirectories = <<>>
  /\ dirResults = <<>>
  /\ stats = ZeroStats
  /\ log = <<>>
  /\ runs = 0
  /\ changes = 0
  /\ lastRun = NoLastRun
  /\ cannotStart = {}
  /\ ScanIdle
  /\ TaskIdle
  /\ TrailerIdle
  /\ ServiceIdle
  /\ \E kinds \in SelectedChoices :
       mosaicRun = [pc |-> "loop",
                    selectedFiles |-> [i \in 1..Len(kinds) |-> [name |-> i, kind |-> kinds[i]]],
                    idx |-> 0, compositeOperations |-> <<>>, processedImages |-> 0,
                    errors |-> {}, lastThumb |-> Null, written |-> FALSE]
  /\ tmpDisk = {}

\* one pass of the loop of lines 599-639 for a video or for an image
PlaceFile ==
  /\ mosaicRun.pc = "loop"
  /\ mosaicRun.idx < Len(mosaicRun.selectedFiles)
  /\ LET idx == mosaicRun.idx
         file == mosaicRun.selectedFiles[idx + 1]
         x == col(idx, GRID_SIZE \div CELL_SIZE) * CELL_SIZE
         y == row(idx, GRID_SIZE \div CELL_SIZE) * CELL_SIZE
     IN \E got \in IF file.kind = "video"
                    THEN { getVideoThumbnail(env, idx, tmpDisk) : env \in ThumbOutcomes }
                    ELSE { [image |-> IF o = "throws" THEN Null ELSE [frame |-> o],
                            tmpDisk |-> tmpDisk,
                            failed |-> IF o = "throws" THEN "readFile" ELSE "none"] :
                           o \in ImageOutcomes } :
          /\ tmpDisk' = got.tmpDisk
          /\ mosaicRun' =
               [mosaicRun EXCEPT
                  !.idx = idx + 1,
                  !.lastThumb = IF file.kind = "video"
                                THEN [image |-> got.image, failed |-> got.failed]
                                ELSE Null,
                  !.compositeOperations =
                     IF got.image # Null /\ got.image.frame = "frame"
                     THEN Append(@, [input |-> file.name, left |-> x, top |-> y])
                     ELSE @,
                  !.processedImages =
                     IF got.image # Null /\ got.image.frame = "frame" THEN @ + 1 ELSE @,
                  !.errors =
                     IF (file.kind = "image" /\ got.image = Null)
                        \/ (got.image # Null /\ got.image.frame # "frame")
                     THEN @ \cup { file.name } ELSE @]
  /\ UNCHANGED << mainVars, serviceVars, scanVars, taskVars, trailerVars >>

\* lines 640-688: the mosaic is composed and written when a file was placed
WriteMosaic ==
  /\ mosaicRun.pc = "loop"
  /\ mosaicRun.idx = Len(mosaicRun.selectedFiles)
  /\ mosaicRun' = [mosaicRun EXCEPT !.pc = "done",
                                    !.written = mosaicRun.processedImages > 0]
  /\ UNCHANGED << tmpDisk, mainVars, serviceVars, scanVars, taskVars, trailerVars >>

MosaicNext ==
  \/ PlaceFile
  \/ WriteMosaic

MosaicSpec == MosaicInit /\ [][MosaicNext]_vars

TaskNext ==
  \/ \E i \in Tasks : StatReturns(i)
  \/ \E i \in Tasks : ProbeReturns(i)
  \/ JoinAndWrite

TaskSpec == TaskInit /\ [][TaskNext]_vars

\* ============================================================ the claims
Processed(i) == log[i].directory
Reconciled(i) == log[i].result.reconciled
ScannedDirs == SeqToSet(scanResult.directories)
\* B lies strictly below A on disk
IsBelow(B, A) == IsPrefix(Resolve(A), Resolve(B)) /\ Resolve(A) # Resolve(B)
\* the media file a key of the cache file at loc stands for, by its place in the tree
KeyFile(loc, key) == TreeLoc(rootDir, Core(loc.dir \o <<loc.name>> \o key))
PathOrDot(p) == IF p = <<>> THEN <<".">> ELSE p

\* C1: when the processing of a directory A begins, the processing of every
\* scanned directory B below A has completed, for every spelling of the root.
C1_DeepestFirst ==
  \A i \in 1..Len(log) :
    \A B \in ScannedDirs :
      IsBelow(B, Processed(i)) => \E j \in 1..(i - 1) : Processed(j) = B

\* C2: a complete run that follows a complete run with no change in between
\* leaves every cache file as the first run left it, key order included, and
\* counts no new file.
C2_Idempotent ==
  (pc = "done" /\ lastRun.valid) =>
    /\ cacheFiles = lastRun.cacheFiles
    /\ stats.totalNewFiles = 0
C2_Witness ==
  /\ pc = "done"
  /\ lastRun.valid
  /\ changes > 0
  /\ \E i \in 1..Len(log) : Reconciled(i) /\ Len(log[i].result.cache) >= 3

\* C3: a live file whose working-cache entry carries the size and mtime of the
\* fresh stat keeps the stored dimensions, is not probed and is not counted new.
IsHitAt(i, k) ==
  LET r == log[i].result.update.results[k]
      working == log[i].result.update.cleanedCache
  IN /\ CacheHas(working, r.name)
     /\ CacheEntryOf(working, r.name).fileSize = r.entry.fileSize
     /\ CacheEntryOf(working, r.name).mtime = r.entry.mtime
C3_CacheHit ==
  \A i \in 1..Len(log) :
    Reconciled(i) =>
      LET u == log[i].result.update
          hits == { k \in 1..Len(u.results) : IsHitAt(i, k) }
      IN /\ \A k \in hits :
              /\ ~u.results[k].probed
              /\ u.results[k].entry.size = CacheEntryOf(u.cleanedCache, u.results[k].name).size
              /\ CacheEntryOf(log[i].result.cache, u.results[k].name) = u.results[k].entry
         /\ u.newFilesCount <= Len(u.results) - Cardinality(hits)
C3_Witness ==
  \E i \in 1..Len(log) :
    /\ Reconciled(i)
    /\ \E k \in 1..Len(log[i].result.update.results) :
         /\ IsHitAt(i, k)
         /\ log[i].result.update.results[k].entry.size = NoSize
    /\ \E k \in 1..Len(log[i].result.update.results) : ~IsHitAt(i, k)

\* C4: the cache updateMetadataCache returns and persists has exactly the
\* relative paths of the live files as its keys, each once.
LiveNames(i) ==
  { log[i].result.mediaFiles[k].relativePath : k \in 1..Len(log[i].result.mediaFiles) }
C4_ExactKeys ==
  \A i \in 1..Len(log) :
    Reconciled(i) =>
      /\ CacheKeys(log[i].result.cache) = LiveNames(i)
      /\ Len(log[i].result.cache) = Cardinality(LiveNames(i))
      /\ pc # "idle" =>    \* until the user changes the disk again
            /\ log[i].result.update.cachePath \in DOMAIN cacheFiles
            /\ cacheFiles[log[i].result.update.cachePath] = log[i].result.cache
C4_Witness ==
  \E i \in 1..Len(log) :
    /\ Reconciled(i)
    /\ CacheKeys(log[i].result.update.ownCache) \ LiveNames(i) # {}
    /\ log[i].result.update.childCaches # <<>>
    /\ \E k \in 1..Len(log[i].result.update.results) :
         log[i].result.update.results[k].probed

\* C5: after a complete run no cache file holds the key of a file that is no
\* longer on disk, the last media file of a directory's subtree included.
C5_DeletionDropsKey ==
  pc = "done" =>
    \A loc \in DOMAIN cacheFiles :
      \A key \in CacheKeys(cacheFiles[loc]) :
        /\ KeyFile(loc, key) \in TreeFiles
        /\ files[KeyFile(loc, key)] # Absent

\* C6: when a directory is reconciled with its own cache file missing and the
\* cache file of each immediate child present, every live file under a child is
\* found in the working cache under childName/childKey and is not probed.
C6_ChildRecovery ==
  \A i \in 1..Len(log) :
    LET u == log[i].result.update
    IN (/\ Reconciled(i)
        /\ ~u.ownExists
        /\ u.childrenWithCache = 1..Len(u.childDirPaths)) =>
         \A k \in 1..Len(u.results) :
           Len(u.results[k].name) > 1 =>
             /\ u.results[k].name \in CacheKeys(u.childCaches)
             /\ ~u.results[k].probed

\* C7: no exception raised while a directory is processed ends the run.
C7_FailureIsolation == pc # "failed"

\* C8: after a complete run the entries of every index file are the directory's
\* own entry together with the entries of the index files of its children.
EntrySet(loc) == SeqToSet(indexFiles[loc])
IsChildLoc(c, d) == Len(c) = Len(d) + 1 /\ IsPrefix(d, c)
OwnEntrySet(loc) ==
  { e \in EntrySet(loc) : e.path = PathOrDot(relative(rootDir, loc)) }
C8_IndexSuperset ==
  pc = "done" =>
    \A D \in DOMAIN indexFiles :
      EntrySet(D) = OwnEntrySet(D) \cup
                    UNION { EntrySet(c) : c \in { x \in DOMAIN indexFiles : IsChildLoc(x, D) } }

\* C9: after a complete run the root's index file lists, once each and by its
\* path from the root, exactly the directories whose mosaic the run wrote.
RootIndex ==
  IF IndexLoc(rootDir) \in DOMAIN indexFiles THEN indexFiles[IndexLoc(rootDir)] ELSE <<>>
MosaicDirs ==
  { i \in 1..Len(log) : Reconciled(i) /\ log[i].result.mosaic.written }
C9_RootIndexTerminal ==
  pc = "done" =>
    /\ { RootIndex[k].path : k \in 1..Len(RootIndex) }
         = { PathOrDot(relative(rootDir, Processed(i))) : i \in MosaicDirs }
    /\ Len(RootIndex) = Cardinality(MosaicDirs)

\* C10: pgridsGenerated counts exactly the directories whose mosaic was
\* written, and a directory without a mosaic adds no entry of its own.
C10_MosaicAccounting ==
  /\ stats.pgridsGenerated = Cardinality(MosaicDirs)
  /\ \A i \in 1..Len(log) : i \notin MosaicDirs => log[i].ownEntries = <<>>

C12_ParentPrecedence ==
  \A i \in 1..Len(log) :
    Reconciled(i) =>
      LET u == log[i].result.update
      IN /\ CacheKeys(u.oldCache) = CacheKeys(u.ownCache) \cup CacheKeys(u.childCaches)
         /\ \A k \in CacheKeys(u.ownCache) :
               CacheEntryOf(u.oldCache, k) = CacheEntryOf(u.ownCache, k)
         /\ \A k \in CacheKeys(u.childCaches) \ CacheKeys(u.ownCache) :
               CacheEntryOf(u.oldCache, k) = CacheEntryOf(u.childCaches, k)
C12_Witness ==
  \E i \in 1..Len(log) :
    /\ Reconciled(i)
    /\ \E k \in CacheKeys(log[i].result.update.ownCache)
                 \cap CacheKeys(log[i].result.update.childCaches) :
         CacheEntryOf(log[i].result.update.ownCache, k)
           # CacheEntryOf(log[i].result.update.childCaches, k)

\* C13: a live file whose stat fails is probed and counted as new, whatever
\* the working cache holds for it, and its new entry has size 0 and mtime 0.
C13_StatFailureIsMiss ==
  \A i \in 1..Len(log) :
    Reconciled(i) =>
      \A k \in 1..Len(log[i].result.update.results) :
        LET r == log[i].result.update.results[k]
        IN r.statFailed =>
             /\ r.probed
             /\ r.entry.fileSize = 0
             /\ r.entry.mtime = 0

\* C14: a file whose probe fails gets an entry with width 0 and height 0 and
\* the size and mtime of its stat; the reconciliation completes, its cache is
\* written, and every other probed file has the dimensions of its own probe.
ProbeFails(file) ==
  IsCorrupt(rootDir, file.absolutePath) \/ IsDenied(rootDir, files, file.absolutePath)
C14_ProbeFailureAbsorbed ==
  pc # "idle" =>
    \A i \in 1..Len(log) :
      Reconciled(i) =>
        LET u == log[i].result.update
            mf == log[i].result.mediaFiles
        IN /\ u.cachePath \in DOMAIN cacheFiles
           /\ \A k \in 1..Len(u.results) :
                /\ CacheEntryOf(cacheFiles[u.cachePath], u.results[k].name) = u.results[k].entry
                /\ u.results[k].entry.fileSize = statOrZero(rootDir, files, mf[k]).fileSize
                /\ u.results[k].entry.mtime = statOrZero(rootDir, files, mf[k]).mtime
                /\ u.results[k].probed =>
                     u.results[k].entry.size = IF ProbeFails(mf[k]) THEN NoSize ELSE RealSize
C14_Witness ==
  /\ pc # "idle"
  /\ \E i \in 1..Len(log) :
       /\ Reconciled(i)
       /\ \E k \in 1..Len(log[i].result.update.results) :
            /\ log[i].result.update.results[k].probed
            /\ IsCorrupt(rootDir, log[i].result.mediaFiles[k].absolutePath)
       /\ \E k \in 1..Len(log[i].result.update.results) :
            /\ log[i].result.update.results[k].probed
            /\ ~ProbeFails(log[i].result.mediaFiles[k])

\* C15: while the tasks of a directory run, at most 10 of them have been
\* started and have not yet returned, however many files the directory has.
C15_BoundedParallelism == Cardinality(InFlight(taskPhase)) <= 10
\* ten tasks are running, among them the last file's, which had to wait for
\* an earlier task to return
C15_Witness ==
  /\ taskPc = "run"
  /\ Cardinality(InFlight(taskPhase)) = 10
  /\ MaxTaskFiles > 10
  /\ taskPhase[MaxTaskFiles] \in {"stat", "probe"}

\* C16: once the cache file of the directory has been written, every task
\* dispatched for it has returned: none is waiting, at its stat or at its probe,
\* when the write happens or later.
C16_JoinAllBeforeWrite ==
  (taskPc = "written" \/ taskDisk # NoResult) =>
     \A i \in Tasks : taskPhase[i] = "done" /\ taskLocal[i] # NoResult
\* the file is written after tasks that probed and a task that had to wait
C16_Witness ==
  /\ taskPc = "written"
  /\ taskDisk # NoResult
  /\ taskCount > 0
  /\ MaxTaskFiles > 10

\* C17: whatever the order in which the tasks moved and returned, the cache
\* written and returned holds, for every file, the entry processFile computes
\* for it from cleanedCache and the filesystem, the stored keys in their old
\* places and the new keys after them in the order of mediaFiles, and
\* newFilesCount is the number of files that were not reused.
TaskIndex(name) == CHOOSE i \in Tasks : TaskMediaFiles[i].relativePath = name
ExpectedNames ==
  [k \in 1..Len(taskCleaned) |-> taskCleaned[k].name]
    \o SelectSeq([i \in Tasks |-> TaskMediaFiles[i].relativePath],
                 LAMBDA n : ~CacheHas(taskCleaned, n))
ExpectedOf(name) == processFile(rootDir, files, taskCleaned, TaskMediaFiles[TaskIndex(name)])
C17_InterleavingIndependence ==
  taskPc = "written" =>
     /\ taskDisk = [k \in 1..Len(ExpectedNames) |->
                      [name |-> ExpectedNames[k],
                       entry |-> ExpectedOf(ExpectedNames[k]).entry]]
     /\ taskNewCache = taskDisk
     /\ taskCount = Cardinality({ i \in Tasks :
                        ExpectedOf(TaskMediaFiles[i].relativePath).probed })
\* a write after a task returned before one dispatched earlier, with a stale
\* entry replaced and a new key added
C17_Witness ==
  /\ taskPc = "written"
  /\ taskOvertook
  /\ taskCount >= 3
  /\ \E k \in 1..Len(taskCleaned) :
       CacheEntryOf(taskDisk, taskCleaned[k].name) # taskCleaned[k].entry
  /\ Len(taskDisk) > Len(taskCleaned)

\* C18: no two entries of the scan's directory list have the same real path,
\* and a path taken from the queue whose real path is already recorded is
\* logged and adds no directory, no file list and no subdirectory list.
RealOf(p) == TreeRoot(rootDir) \o RealLoc(TreeLoc(rootDir, Resolve(p)))
Recorded(real) == \E d \in SeqToSet(scanAcc.directories) : RealOf(d) = real
C19_ScanTerminates == <>(scanPc = "done")
C19_Witness ==
  /\ scanPc = "done"
  /\ scanQueue = <<>>
  /\ walk.kind = "subdirs"
  /\ \E k \in 1..Len(walk.out) : walk.out[k] \in SeqToSet(scanAcc.skipped)

\* C20: no path with a hidden name below the root is in the queue, in the
\* directory list or in a subdirectory list, and no media file of any list
\* lies below a hidden directory.
IsHiddenPath(p) ==
  \E i \in 1..Len(TreeLoc(rootDir, Resolve(p))) :
    TreeLoc(rootDir, Resolve(p))[i] \in HiddenNames
C20_HiddenNotDescended ==
  /\ \A k \in 1..Len(scanQueue) : ~IsHiddenPath(scanQueue[k])
  /\ \A k \in 1..Len(scanAcc.directories) : ~IsHiddenPath(scanAcc.directories[k])
  /\ \A d \in DOMAIN scanAcc.subdirsByDir :
       \A k \in 1..Len(scanAcc.subdirsByDir[d]) : ~IsHiddenPath(scanAcc.subdirsByDir[d][k])
  /\ \A d \in DOMAIN scanAcc.mediaFilesByDir :
       \A k \in 1..Len(scanAcc.mediaFilesByDir[d]) :
         ~IsHiddenPath(scanAcc.mediaFilesByDir[d][k].absolutePath)
  /\ walk.kind = "files" =>
       \A k \in 1..Len(walk.out) : ~IsHiddenPath(walk.out[k].absolutePath)
  /\ walk.kind = "subdirs" =>
       \A k \in 1..Len(walk.out) : ~IsHiddenPath(walk.out[k])
C20_Witness ==
  /\ scanPc = "done"
  /\ \E d \in SeqToSet(scanAcc.directories) :
       \E n \in SeqToSet(ListedDirs(dirs, RealLoc(TreeLoc(rootDir, Resolve(d))))) :
         /\ n \in HiddenNames
         /\ files[RealLoc(TreeLoc(rootDir, Resolve(d))) \o <<n, "h.jpg">>] # Absent
  /\ walk.kind = "files"
  /\ Len(walk.out) >= 3
\* C21: when a recorded directory refuses to be listed, the error is logged,
\* the directory is recorded with no media file and no subdirectory, and the
\* pass removes nothing but that directory from the queue, so the scan goes on
\* with every directory that was waiting.
RealLocOf(p) == RealLoc(TreeLoc(rootDir, Resolve(p)))
C21_UnreadableIsEmpty ==
  /\ [](\A d \in SeqToSet(scanAcc.directories) :
          (RealLocOf(d) \in unreadable /\ d \in DOMAIN scanAcc.mediaFilesByDir) =>
             /\ scanAcc.mediaFilesByDir[d] = <<>>
             /\ scanAcc.subdirsByDir[d] = <<>>
             /\ d \in SeqToSet(scanAcc.errors))
  /\ [][(scanPc = "scan" /\ scanQueue # <<>>
          /\ Len(scanAcc'.directories) > Len(scanAcc.directories)
          /\ RealLocOf(Head(scanQueue)) \in unreadable)
           => /\ scanQueue' = Tail(scanQueue)
              /\ scanAcc'.errors = Append(scanAcc.errors, Head(scanQueue))
              /\ Last(scanAcc'.directories) = Head(scanQueue)]_vars
\* the scan has finished, a listing failed and a directory that was waiting
\* behind the unreadable one was recorded with its files
C21_Witness ==
  /\ scanPc = "done"
  /\ \E i, j \in 1..Len(scanAcc.directories) :
       /\ i < j
       /\ scanAcc.directories[i] \in SeqToSet(scanAcc.errors)
       /\ scanAcc.mediaFilesByDir[scanAcc.directories[j]] # <<>>

\* C22: a listed file is recorded as media, under its file name, exactly when
\* it is an image or a video by its MIME type, is not on the skip list and is
\* not named like a mosaic; so no cache sidecar, index file, mosaic or viewer
\* copy written by an earlier run is in a media list or comes out of a walk.
ArtifactsOnDisk == ArtifactFiles(rootDir, cacheFiles, indexFiles, mosaicFiles)
IsArtifactFile(f) == RealLocOf(f.absolutePath) \in ArtifactsOnDisk
C22_ArtifactExclusion ==
  /\ \A d \in DOMAIN scanAcc.mediaFilesByDir :
       /\ \A i \in 1..Len(scanAcc.mediaFilesByDir[d]) :
            LET f == scanAcc.mediaFilesByDir[d][i]
            IN /\ ~IsArtifactFile(f)
               /\ f.relativePath = <<Last(f.absolutePath)>>
               /\ Last(f.absolutePath) \in SeqToSet(FileNames(RealLocOf(d)))
       /\ RealLocOf(d) \notin unreadable =>
            \A n \in SeqToSet(FileNames(RealLocOf(d))) :
               files[RealLocOf(d) \o <<n>>] # Absent =>
                  \E i \in 1..Len(scanAcc.mediaFilesByDir[d]) :
                     scanAcc.mediaFilesByDir[d][i].absolutePath = join(d, <<n>>)
  /\ walk.kind = "files" => \A i \in 1..Len(walk.out) : ~IsArtifactFile(walk.out[i])
\* a finished scan and file walk of a tree that holds the files of an earlier
\* run: a directory with a mosaic, a sidecar, an index file, a text and a
\* Photoshop document in its listing has its image recorded
C22_Witness ==
  /\ scanPc = "done"
  /\ walk.kind = "files"
  /\ walk.out # <<>>
  /\ \E d \in DOMAIN scanAcc.mediaFilesByDir :
       /\ scanAcc.mediaFilesByDir[d] # <<>>
       /\ OtherNames(RealLocOf(d)) # <<>>
       /\ RealLocOf(d) \o <<mosaicName("a")>> \in ArtifactsOnDisk
       /\ RealLocOf(d) \o <<sidecarName("a")>> \in ArtifactsOnDisk
       /\ RealLocOf(d) \o <<indexName>> \in ArtifactsOnDisk
       /\ RealLocOf(d) \o <<viewerName>> \in ArtifactsOnDisk

\* C23: a run in which ffmpeg or ffprobe does not start ends with exit code 1
\* in its dependency check: it scans nothing, processes no directory and leaves
\* every cache file, index file and mosaic (with its viewer copy) as it was.
C23_MissingDependencyFatal ==
  /\ [](cannotStart # {} =>
          /\ pc = "exit1"
          /\ scanResult = EmptyScan
          /\ log = <<>>)
  /\ [][cannotStart' # {} =>
          /\ cacheFiles' = cacheFiles
          /\ indexFiles' = indexFiles
          /\ mosaicFiles' = mosaicFiles]_vars
\* ffprobe alone is missing in a run that follows a complete run and a change
\* that would have made the run rewrite a cache
C23_Witness ==
  /\ pc = "exit1"
  /\ cannotStart = { "ffprobe" }
  /\ cacheFiles # <<>>
  /\ changes > 0
  /\ runs > 1

\* C24: in a complete run the combined entry list of every processed
\* directory D is D's own entry, present iff D's cache has an entry, followed by
\* the combined lists of D's immediate scanned subdirectories; it is the list
\* stored for D's parent and the content of D's index file when it is not empty.
CombinedOf(S) ==
  Flatten([i \in 1..Len(log) |-> IF Processed(i) = S THEN log[i].indexEntries ELSE <<>>])
ScannedSubdirs(D) ==
  SelectSeq(MapGet(scanResult.subdirsByDir, D), LAMBDA S : S \in ScannedDirs)
C24_IndexAggregation ==
  pc = "done" =>
    \A i \in 1..Len(log) :
      /\ (log[i].ownEntries # <<>>) <=> (Len(log[i].result.cache) > 0)
      /\ Len(log[i].ownEntries) <= 1
      /\ log[i].indexEntries =
           log[i].ownEntries
             \o Flatten([k \in 1..Len(ScannedSubdirs(Processed(i))) |->
                           CombinedOf(ScannedSubdirs(Processed(i))[k])])
      /\ dirResults[Processed(i)].indexEntries = log[i].indexEntries
      /\ log[i].indexEntries # <<>> =>
            indexFiles[IndexLoc(Processed(i))] = log[i].indexEntries

\* C25: every entry of the index file written for a directory D describes a
\* processed directory at or below D and names it by its path from D ("." for
\* D itself).
C25_IndexPathsPerDirectory ==
  \A i \in 1..Len(log) :
    log[i].indexWritten =>
      \A k \in 1..Len(indexFiles[IndexLoc(Processed(i))]) :
        \E j \in 1..Len(log) :
          /\ log[j].ownEntries # <<>>
          /\ IsPrefix(Resolve(Processed(i)), Resolve(Processed(j)))
          /\ indexFiles[IndexLoc(Processed(i))][k] =
               [log[j].ownEntries[1] EXCEPT
                  !.path = PathOrDot(relative(Processed(i), Processed(j)))]

\* C26: when a call of getVideoThumbnail has returned, whatever step of it
\* failed, no temporary file or directory made by it is left on disk.
C26_TempCleanup == tmpDisk = {}

\* C27: getVideoThumbnail returns an image only when no step of it failed:
\* the temporary file was made, the duration was probed, the frame was
\* extracted, read and can be decoded; otherwise it returns null.
C27_NullOnFailure ==
  (mosaicRun.pc # "idle" /\ mosaicRun.lastThumb # Null) =>
     (mosaicRun.lastThumb.image # Null <=> mosaicRun.lastThumb.failed = "none")

\* C28: the selected file of index i is composited only at left = (i mod 2) * 360
\* and top = (i div 2) * 360; the cells of distinct files do not overlap and lie
\* inside the 720 x 720 canvas; a file that fails has no cell and moves no
\* other file's cell, and the loop goes on to the last selected file.
OpsOf(i) ==
  { k \in 1..Len(mosaicRun.compositeOperations) :
      mosaicRun.compositeOperations[k].input = i }
C28_SlotPlacement ==
  mosaicRun.pc # "idle" =>
    /\ \A k \in 1..Len(mosaicRun.compositeOperations) :
         LET op == mosaicRun.compositeOperations[k]
         IN /\ op.input \in 1..mosaicRun.idx
            /\ op.left = ((op.input - 1) % 2) * 360
            /\ op.top = ((op.input - 1) \div 2) * 360
            /\ op.left + 360 <= 720 /\ op.top + 360 <= 720
    /\ \A k, l \in 1..Len(mosaicRun.compositeOperations) :
         k # l =>
           \/ mosaicRun.compositeOperations[k].left # mosaicRun.compositeOperations[l].left
           \/ mosaicRun.compositeOperations[k].top # mosaicRun.compositeOperations[l].top
    /\ \A i \in 1..mosaicRun.idx : Cardinality(OpsOf(i)) <= 1
    /\ \A i \in mosaicRun.errors : OpsOf(i) = {}
    /\ mosaicRun.processedImages = Len(mosaicRun.compositeOperations)
    /\ mosaicRun.pc = "done" =>
         /\ mosaicRun.idx = Len(mosaicRun.selectedFiles)
         /\ mosaicRun.written <=> mosaicRun.processedImages > 0
\* four files were selected, the second failed and the third and the fourth
\* were placed in the bottom row
C28_Witness ==
  /\ mosaicRun.pc = "done"
  /\ mosaicRun.written
  /\ Len(mosaicRun.selectedFiles) = 4
  /\ 2 \in mosaicRun.errors
  /\ OpsOf(1) # {} /\ OpsOf(2) = {} /\ OpsOf(3) # {} /\ OpsOf(4) # {}

\* C29: the files selected for the mosaic of a directory whose subtree holds n
\* media files are min(4, n) pairwise distinct files of the directory's
\* recursive file set (its own files and those of its scanned descendants).
SubtreeFiles(D) ==
  UNION { { Resolve(MapGet(scanResult.mediaFilesByDir, d)[k].absolutePath) :
              k \in 1..Len(MapGet(scanResult.mediaFilesByDir, d)) } :
          d \in { x \in ScannedDirs : IsPrefix(Resolve(D), Resolve(x)) } }
SelectedFiles(i) ==
  { Resolve(log[i].result.mediaFiles[k].absolutePath) : k \in log[i].selected }
C29_MosaicSelection ==
  \A i \in 1..Len(log) :
    LET n == Cardinality(SubtreeFiles(Processed(i)))
    IN /\ log[i].selected \subseteq 1..Len(log[i].result.mediaFiles)
       /\ Cardinality(SelectedFiles(i)) = Cardinality(log[i].selected)
       /\ Cardinality(SelectedFiles(i)) = (IF n < 4 THEN n ELSE 4)
       /\ SelectedFiles(i) \subseteq SubtreeFiles(Processed(i))

C31_ScanResultReadOnly ==
  [][pc = "process" =>
       /\ scanResult'.directories = scanResult.directories
       /\ scanResult'.mediaFilesByDir = scanResult.mediaFilesByDir
       /\ scanResult'.subdirsByDir = scanResult.subdirsByDir]_vars
\* a run has ended in which the files of a directory that holds two files
\* itself were put in a random order
C31_Witness ==
  /\ pc = "done"
  /\ \E i \in 1..Len(log) :
       /\ Reconciled(i)
       /\ Len(MapGet(scanResult.mediaFilesByDir, validatePath(Processed(i)).path)) >= 2
       /\ Cardinality(log[i].selected) >= 2

\* C32: in a run a file is probed, and counted as new, only in the
\* reconciliation of the directory that directly contains it; in the
\* reconciliation of every directory above it is a cache hit, whatever the old
\* cache file of that directory holds.
C32_ProbedOncePerRun ==
  \A i \in 1..Len(log) :
    Reconciled(i) =>
      \A k \in 1..Len(log[i].result.update.results) :
        log[i].result.update.results[k].probed =>
          Len(log[i].result.update.results[k].name) = 1

\* C33: at the end of a first run, over a tree without any cache file, the
\* total of new files is the number of distinct media files the scan found,
\* the total of processed files is the sum over the scanned directories of the
\* number of media files below each, and processed minus new is not negative.
AllScannedFiles == UNION { SubtreeFiles(d) : d \in ScannedDirs }
RECURSIVE SumOfSubtrees(_)
SumOfSubtrees(directories) ==
  IF directories = <<>> THEN 0
  ELSE Cardinality(SubtreeFiles(Head(directories))) + SumOfSubtrees(Tail(directories))
C33_FirstRunCounts ==
  (pc = "done" /\ runs = 1) =>
    /\ stats.totalNewFiles = Cardinality(AllScannedFiles)
    /\ stats.totalFilesProcessed = SumOfSubtrees(scanResult.directories)
    /\ stats.totalFilesProcessed - stats.totalNewFiles >= 0

\* C34: after a run, for every scanned directory P with a media file below it,
\* the keys of P's cache file are the names of P's own media files together
\* with, for each scanned child C, the keys of C's cache file prefixed with
\* C's name, each key once; and a file's entry in P's cache file equals its
\* entry in C's.
PersistedCache(D) ==
  ReadCache(cacheFiles, SidecarLoc(dirname(validatePath(D).path),
                                   basename(validatePath(D).path)))
DirectNames(D) ==
  { MapGet(scanResult.mediaFilesByDir, D)[k].relativePath :
      k \in 1..Len(MapGet(scanResult.mediaFilesByDir, D)) }
ScannedChildren(D) ==
  { C \in SeqToSet(MapGet(scanResult.subdirsByDir, D)) : C \in ScannedDirs }
PrefixedKeys(C) == { <<basename(C)>> \o k : k \in CacheKeys(PersistedCache(C)) }
C34_CrossLevelConsistency ==
  pc = "done" =>
    \A P \in ScannedDirs :
      SubtreeFiles(P) # {} =>
        /\ CacheKeys(PersistedCache(P))
             = DirectNames(P) \cup UNION { PrefixedKeys(C) : C \in ScannedChildren(P) }
        /\ Len(PersistedCache(P)) = Cardinality(CacheKeys(PersistedCache(P)))
        /\ \A C \in ScannedChildren(P) :
             \A k \in CacheKeys(PersistedCache(C)) :
               CacheHas(PersistedCache(P), <<basename(C)>> \o k) =>
                 CacheEntryOf(PersistedCache(P), <<basename(C)>> \o k)
                   = CacheEntryOf(PersistedCache(C), k)

\* C35: at the end of processAllDirectories every scanned directory was counted
\* once, in pgridsGenerated when its cache has an entry and in pgridsSkipped
\* when it has none; the two add up to the number of scanned directories, and
\* the root's combined index list has pgridsGenerated entries.
C35_AccountingPartition ==
  pc = "done" =>
    /\ stats.pgridsGenerated
         = Cardinality({ i \in 1..Len(log) : Len(log[i].result.cache) > 0 })
    /\ stats.pgridsSkipped
         = Cardinality({ i \in 1..Len(log) : Len(log[i].result.cache) = 0 })
    /\ Len(log) = Len(scanResult.directories)
    /\ stats.pgridsGenerated + stats.pgridsSkipped = Len(scanResult.directories)
    /\ Len(stats.indexEntries) = stats.pgridsGenerated

\* ------------------------------------------------------------ cron.ts: the job scheduler
\* The pipeline of grid.ts is at rest while the scheduler is followed.
MainIdle ==
  /\ rootDir = TaskRoot
  /\ files = [f \in TreeFiles |-> Written(f, 1)]
  /\ dirs = {}
  /\ cacheFiles = <<>>
  /\ indexFiles = <<>>
  /\ mosaicFiles = <<>>
  /\ pc = "idle"
  /\ scanResult = EmptyScan
  /\ allDirectories = <<>>
  /\ dirResults = <<>>
  /\ stats = ZeroStats
  /\ log = <<>>
  /\ runs = 0
  /\ changes = 0
  /\ lastRun = NoLastRun
  /\ cannotStart = {}

MAX_RUNS_PER_JOB == 50
MaxJobs == 2        \* jobs of the larger configuration
MaxStarts == 3      \* runs created when the configuration has several jobs
MaxLongRuns == 52   \* runs created when the configuration has one job
MaxFailures == 1    \* runs of the one-job configuration that do not succeed

\* the jobs of a configuration file: distinct objects, here told apart by ref
JobConfigs(n) == [i \in 1..n |-> [ref |-> i, schedule |-> "* * * * *"]]
StartLimit == IF Len(config.jobs) = 1 THEN MaxLongRuns ELSE MaxStarts
FailureLimit == IF Len(config.jobs) = 1 THEN MaxFailures ELSE MaxStarts

\* line 94: Array.prototype.indexOf, the zero-based place of the object or -1
jobIndexOf(jobs, jobConfig) ==
  IF \E i \in 1..Len(jobs) : jobs[i] = jobConfig
  THEN (CHOOSE i \in 1..Len(jobs) :
          jobs[i] = jobConfig /\ \A k \in 1..(i - 1) : jobs[k] # jobConfig) - 1
  ELSE -1

\* (mutant) runJob does not look at the running map
alreadyRunning_Never(index) == FALSE
\* line 97: this.runningJobs.has(index)
alreadyRunning(index) == index \in DOMAIN runningJobs

\* lines 101-108: the JobRun of a new run; an optional field that is not set is <<>>
newRun(index, time) ==
  [id |-> << index, time >>, jobIndex |-> index, startTime |-> time, endTime |-> <<>>,
   status |-> "running", exitCode |-> <<>>, error |-> <<>>]

\* what the command does: it cannot be spawned, or it exits with a code
Outcomes == { [spawned |-> FALSE], [spawned |-> TRUE, code |-> 0], [spawned |-> TRUE, code |-> 1] }

\* lines 137-205: executeCommand throws when the spawn fails, else reports the exit
executeCommand(outcome) ==
  IF ~outcome.spawned
  THEN [throws |-> TRUE, message |-> "NotFound"]
  ELSE [throws |-> FALSE, success |-> outcome.code = 0, exitCode |-> << outcome.code >>,
        error |-> IF outcome.code = 0 THEN <<>>
                  ELSE << "Process exited with code " \o ToString(outcome.code) >>]

\* lines 116-128: the try block and the catch block set the run's last fields
finishedRun(jobRun, result, time) ==
  IF result.throws
  THEN [jobRun EXCEPT !.status = "failed", !.error = << result.message >>,
                      !.endTime = << time >>]
  ELSE [jobRun EXCEPT !.status = IF result.success THEN "completed" ELSE "failed",
                      !.exitCode = result.exitCode, !.error = result.error,
                      !.endTime = << time >>]

\* (mutant) the run goes to the end of the history
unshift_Push(list, item) == list \o << item >>
\* line 132: Array.prototype.unshift
unshift(list, item) == << item >> \o list
\* line 133: runs.slice(0, MAX_RUNS_PER_JOB)
keepRuns(list) ==
  SubSeq(list, 1, IF Len(list) < MAX_RUNS_PER_JOB THEN Len(list) ELSE MAX_RUNS_PER_JOB)

\* Map.prototype.delete
MapDelete(map, key) == [k \in DOMAIN map \ { key } |-> map[k]]

FailedRuns ==
  { r \in UNION { SeqToSet(jobRunsByJob[j]) : j \in DOMAIN jobRunsByJob } : r.status = "failed" }

CronInit ==
  /\ MainIdle
  /\ ScanIdle
  /\ TaskIdle
  /\ MosaicIdle
  /\ TrailerIdle
  /\ PumpIdle
  /\ config \in { [jobs |-> JobConfigs(1)], [jobs |-> JobConfigs(MaxJobs)] }
  /\ runningJobs = <<>>
  /\ jobRunsByJob = <<>>
  /\ pendingRuns = {}
  /\ now = 0
  /\ httpResponse = NoResponse

\* lines 93-114: runJob up to its await: the run is created and registered, or
\* nothing happens
runJob(jobConfig) ==
  \E index \in { jobIndexOf(config.jobs, jobConfig) } :
    IF index = -1 \/ alreadyRunning(index)
    THEN UNCHANGED << runningJobs, pendingRuns, now >>
    ELSE /\ now' = now + 1
         /\ runningJobs' = MapSet(runningJobs, index, newRun(index, now + 1))
         /\ pendingRuns' = pendingRuns \cup { newRun(index, now + 1) }

\* lines 74-78: the schedule of a job fires
CronFires ==
  \E i \in 1..Len(config.jobs) :
    /\ now < StartLimit \/ alreadyRunning(i - 1)
    /\ runJob(config.jobs[i])
    /\ UNCHANGED << config, jobRunsByJob, httpResponse >>
    /\ UNCHANGED << mainVars, scanVars, taskVars, mosaicVars, trailerVars, pumpVars >>

\* parseInt(text, 10): an optional sign and the digits that follow it
IsDigit(c) == c \in { Digits[k] : k \in 1..10 }
RECURSIVE leadingDigits(_, _)
leadingDigits(cs, acc) ==
  IF cs # <<>> /\ IsDigit(Head(cs))
  THEN leadingDigits(Tail(cs), acc * 10 + DigitValue(Head(cs)))
  ELSE acc
parseInt(text) ==
  LET cs == Chars(text)
      negative == cs # <<>> /\ Head(cs) = "-"
      digits == IF negative THEN Tail(cs) ELSE cs
  IN IF digits = <<>> \/ ~IsDigit(Head(digits)) THEN [isNaN |-> TRUE, value |-> 0]
     ELSE [isNaN |-> FALSE,
           value |-> IF negative THEN 0 - leadingDigits(digits, 0) ELSE leadingDigits(digits, 0)]

\* the job parameter of a request: absent or empty, or some text
JobIdStrings == { "", "x", "-1", "0", "1" }
\* seq tells an answer from the one before it
Response(jobIdStr, status, body) ==
  [seq |-> 1 - httpResponse.seq, job |-> jobIdStr, status |-> status, body |-> body]
AlreadyRunningBody == [success |-> FALSE, error |-> "Job is already running"]

\* lines 741-788: handleRunJob, one request of /api/run
HandleRunJob ==
  \E jobIdStr \in JobIdStrings :
    \E jobIndex \in { parseInt(jobIdStr) } :
      /\ IF jobIdStr = ""
         THEN /\ httpResponse' = Response(jobIdStr, 400, [error |-> "Job ID required"])
              /\ UNCHANGED << runningJobs, pendingRuns, now >>
         ELSE IF jobIndex.isNaN \/ jobIndex.value < 0 \/ jobIndex.value >= Len(config.jobs)
         THEN /\ httpResponse' = Response(jobIdStr, 400, [error |-> "Invalid job ID"])
              /\ UNCHANGED << runningJobs, pendingRuns, now >>
         ELSE IF jobIndex.value \in DOMAIN runningJobs
         THEN /\ httpResponse' = Response(jobIdStr, 200, AlreadyRunningBody)
              /\ UNCHANGED << runningJobs, pendingRuns, now >>
         ELSE /\ now < StartLimit
              /\ runJob(config.jobs[jobIndex.value + 1])
              /\ httpResponse' = Response(jobIdStr, 200, [success |-> TRUE])
      /\ UNCHANGED << config, jobRunsByJob >>
      /\ UNCHANGED << mainVars, scanVars, taskVars, mosaicVars, trailerVars, pumpVars >>

\* lines 116-134: executeCommand settles and runJob goes on to its end: the
\* try or the catch block, then the finally block
Settle ==
  \E jobRun \in pendingRuns, outcome \in Outcomes :
    /\ outcome = [spawned |-> TRUE, code |-> 0] \/ Cardinality(FailedRuns) < FailureLimit
    /\ \E done \in { finishedRun(jobRun, executeCommand(outcome), now) } :
         /\ pendingRuns' = pendingRuns \ { jobRun }
         /\ runningJobs' = MapDelete(runningJobs, jobRun.jobIndex)
         /\ jobRunsByJob' = MapSet(jobRunsByJob, jobRun.jobIndex,
                                   keepRuns(unshift(MapGet(jobRunsByJob, jobRun.jobIndex), done)))
    /\ UNCHANGED << config, now, httpResponse >>
    /\ UNCHANGED << mainVars, scanVars, taskVars, mosaicVars, trailerVars, pumpVars >>

CronNext ==
  \/ CronFires
  \/ HandleRunJob
  \/ Settle

CronSpec == CronInit /\ [][CronNext]_vars
\* a command that was spawned ends, and the event loop then resumes runJob
CronFair == CronSpec /\ WF_vars(Settle)

\* C36: no two runs of one job are in progress at a time; while a job runs, no
\* step starts another run of it, and a step that answers an /api/run request
\* for it answers success false with "Job is already running" and changes
\* neither the running map nor the histories.
JobIndexes == 0..(MaxJobs - 1)
RunsInProgress(j) == { r \in pendingRuns : r.jobIndex = j }
C36_NoOverlappingRuns ==
  [][\A j \in JobIndexes :
       /\ Cardinality(RunsInProgress(j)) <= 1
       /\ Cardinality({ r \in pendingRuns' : r.jobIndex = j }) <= 1
       /\ j \in DOMAIN runningJobs =>
            /\ RunsInProgress(j) = { runningJobs[j] }
            /\ j \in DOMAIN runningJobs' => runningJobs'[j] = runningJobs[j]
            /\ { r \in pendingRuns' : r.jobIndex = j } \subseteq RunsInProgress(j)
            /\ (httpResponse' # httpResponse
                  /\ parseInt(httpResponse'.job) = [isNaN |-> FALSE, value |-> j]) =>
                 /\ httpResponse'.status = 200
                 /\ httpResponse'.body = AlreadyRunningBody
                 /\ runningJobs' = runningJobs
                 /\ pendingRuns' = pendingRuns
                 /\ jobRunsByJob' = jobRunsByJob]_vars
\* a request for a job in progress has just been answered, after a cron trigger
\* and a request started runs of two jobs
C36_Witness ==
  /\ Cardinality(DOMAIN runningJobs) = 2
  /\ httpResponse.body = AlreadyRunningBody
  /\ now = 2

\* C37: a run in progress is in time taken out of the running map; the step that
\* takes it out puts it, with status completed or failed and an end time, at the
\* front of its job's history, ahead of the newest runs the history held; a
\* history holds at most MAX_RUNS_PER_JOB runs, newest first, each of them once
\* and none of them still running.
HistoryInOrder(j) ==
  LET history == jobRunsByJob[j] IN
    /\ Len(history) <= MAX_RUNS_PER_JOB
    /\ \A i \in 1..Len(history) :
         /\ history[i].jobIndex = j
         /\ history[i].status \in { "completed", "failed" }
         /\ history[i].endTime # <<>>
         /\ \A k \in (i + 1)..Len(history) : history[i].startTime > history[k].startTime
FinalisedAtFront(j) ==
  (j \in DOMAIN runningJobs /\ j \notin DOMAIN runningJobs') =>
    /\ j \in DOMAIN jobRunsByJob'
    /\ jobRunsByJob'[j] # <<>>
    /\ Head(jobRunsByJob'[j]).id = runningJobs[j].id
    /\ Head(jobRunsByJob'[j]).status \in { "completed", "failed" }
    /\ Head(jobRunsByJob'[j]).endTime # <<>>
    /\ Tail(jobRunsByJob'[j]) =
         SubSeq(MapGet(jobRunsByJob, j), 1, Len(jobRunsByJob'[j]) - 1)
MaxUsers == 2       \* users handed to downloadUsersParallel
MaxChunks == 1      \* chunks a command writes to one pipe
CHECK == "(v)"      \* stands for the check mark of the messages
CROSS == "(x)"      \* stands for the ballot cross of the messages

\* String.prototype.includes
includes(text, part) ==
  \E i \in 1..(Len(text) - Len(part) + 1) : SubSeq(text, i, i + Len(part) - 1) = part
\* text.split("\n")
RECURSIVE splitLines(_, _, _)
splitLines(cs, line, acc) ==
  IF cs = <<>> THEN Append(acc, line)
  ELSE IF Head(cs) = NL THEN splitLines(Tail(cs), "", Append(acc, line))
  ELSE splitLines(Tail(cs), line \o Head(cs), acc)
\* .filter((line) => line.trim())
nonBlankLines(text) ==
  SelectSeq(splitLines(Chars(text), "", <<>>),
            LAMBDA line : \E i \in 1..Len(line) : SubSeq(line, i, i) # " ")

\* lines 23-27
setTotalDownloads(L, total) ==
  [L EXCEPT !.totalDownloads = total, !.completedCount = 0, !.completedDownloads = <<>>]
\* lines 29-32
addDownload(L, url, initialMessage) ==
  [L EXCEPT !.activeDownloads = MapSet(@, url, initialMessage)]
\* lines 34-37
updateDownload(L, url, message) ==
  [L EXCEPT !.activeDownloads = MapSet(@, url, message)]
\* lines 39-53
removeDownload(L, url) ==
  LET message == IF url \in DOMAIN L.activeDownloads /\ L.activeDownloads[url] # ""
                 THEN L.activeDownloads[url] ELSE "Completed"
      cleanMessage == IF includes(message, CHECK) THEN "Download completed successfully"
                      ELSE IF includes(message, CROSS) THEN "Download failed"
                      ELSE IF includes(message, "Error:") THEN "Download failed"
                      ELSE "Download completed successfully"
  IN [L EXCEPT !.activeDownloads = MapDelete(@, url),
               !.completedDownloads = MapSet(@, url, cleanMessage),
               !.completedCount = @ + 1]

\* the users found on disk, as their urls
Users == << [hostname |-> "www.instagram.com", user |-> "a"],
            [hostname |-> "www.pornhub.com", user |-> "b"] >>
\* lines 695-712: downloadUser picks the tool by the url's host
toolOf(url) == IF endsWith(url.hostname, "pornhub.com") THEN "yt-dlp" ELSE "gallery-dl"
\* what a command writes to one pipe: at most MaxChunks chunks
ChunkTexts == { "1%" \o NL \o "2%", " " \o NL }
RECURSIVE ChunkSeqs(_)
ChunkSeqs(n) ==
  IF n = 0 THEN { <<>> }
  ELSE ChunkSeqs(n - 1) \cup { Append(s, c) : s \in { s \in ChunkSeqs(n - 1) : Len(s) = n - 1 },
                                               c \in ChunkTexts }
NoPipe == [pending |-> <<>>, done |-> FALSE]
QueuedCommand(url, tool) ==
  [phase |-> "queued", url |-> url, tool |-> tool, spawned |-> FALSE, stdout |-> NoPipe,
   stderr |-> NoPipe, status |-> <<>>, output |-> "", late |-> 0]
Downloading == pumpCfg.caller = "downloadUsersParallel"

PumpInit ==
  /\ MainIdle
  /\ ScanIdle
  /\ TaskIdle
  /\ MosaicIdle
  /\ TrailerIdle
  /\ CronIdle
  /\ pumpCfg \in { [caller |-> "executeCommand", users |-> <<>>, parallelCount |-> 1] }
                   \cup { [caller |-> "downloadUsersParallel", users |-> SubSeq(Users, 1, n),
                           parallelCount |-> k] : n \in 1..MaxUsers, k \in 1..MaxUsers }
  /\ procs = IF Downloading
             THEN [p \in 1..Len(pumpCfg.users) |->
                     QueuedCommand(pumpCfg.users[p], toolOf(pumpCfg.users[p]))]
             ELSE << QueuedCommand([hostname |-> "", user |-> ""], "command") >>
  \* gallery-update.ts lines 727-728
  /\ logger = IF Downloading THEN setTotalDownloads(NoLogger, Len(pumpCfg.users)) ELSE NoLogger

\* cron.ts lines 144-152, gallery-update.ts lines 503-517 and 609-623: the next
\* queued command is spawned when the queue has room, or the spawn throws
SpawnProcess ==
  \E p \in DOMAIN procs, spawns \in BOOLEAN :
    /\ procs[p].phase = "queued"
    /\ \A q \in 1..(p - 1) : procs[q].phase # "queued"
    /\ Cardinality({ q \in DOMAIN procs : procs[q].phase = "running" }) < pumpCfg.parallelCount
    /\ \E out \in (IF spawns THEN ChunkSeqs(MaxChunks) ELSE { <<>> }),
          err \in (IF spawns THEN ChunkSeqs(MaxChunks) ELSE { <<>> }) :
         procs' = [procs EXCEPT ![p] =
                     [@ EXCEPT !.phase = IF spawns THEN "running" ELSE "returned",
                               !.spawned = spawns,
                               !.stdout = [pending |-> out, done |-> FALSE],
                               !.stderr = [pending |-> err, done |-> FALSE]]]
    /\ logger' =
         IF ~Downloading THEN logger
         ELSE IF spawns THEN addDownload(logger, procs[p].url, "Starting...")
         ELSE removeDownload(
                updateDownload(addDownload(logger, procs[p].url, "Starting..."),
                               procs[p].url, CROSS \o " Error: NotFound"),
                procs[p].url)
    /\ UNCHANGED pumpCfg
    /\ UNCHANGED << mainVars, scanVars, taskVars, mosaicVars, trailerVars, cronVars >>

\* the command ends; its pipes hold what it wrote and has not been read
ProcessExits ==
  \E p \in DOMAIN procs, success \in BOOLEAN :
    /\ procs[p].spawned
    /\ procs[p].status = <<>>
    /\ procs' = [procs EXCEPT ![p].status = << success >>]
    /\ UNCHANGED << pumpCfg, logger >>
    /\ UNCHANGED << mainVars, scanVars, taskVars, mosaicVars, trailerVars, cronVars >>

\* the message a read loop of gallery-update.ts shows for a chunk
lastOutput(stream, lines) ==
  IF stream = "stdout" THEN Last(lines) ELSE "ERROR: " \o Last(lines)

\* cron.ts lines 161-167 and 180-186, gallery-update.ts lines 525-535, 549-559,
\* 632-642 and 656-666: one pass of a read loop that gets a chunk
ReadChunk ==
  \E p \in DOMAIN procs, stream \in { "stdout", "stderr" } :
    /\ procs[p].spawned
    /\ procs[p][stream].pending # <<>>
    /\ \E text \in { Head(procs[p][stream].pending) } :
         /\ procs' = [procs EXCEPT
                        ![p][stream].pending = Tail(@),
                        ![p].output = IF Downloading THEN @ ELSE @ \o text,
                        ![p].late = IF procs[p].phase = "returned" THEN @ + 1 ELSE @]
         /\ logger' = IF Downloading /\ nonBlankLines(text) # <<>>
                      THEN updateDownload(logger, procs[p].url,
                                          lastOutput(stream, nonBlankLines(text)))
                      ELSE logger
    /\ UNCHANGED pumpCfg
    /\ UNCHANGED << mainVars, scanVars, taskVars, mosaicVars, trailerVars, cronVars >>

\* one pass of a read loop that gets done: the command has ended and the pipe is empty
ReadDone ==
  \E p \in DOMAIN procs, stream \in { "stdout", "stderr" } :
    /\ procs[p].spawned
    /\ procs[p].status # <<>>
    /\ procs[p][stream].pending = <<>>
    /\ ~procs[p][stream].done
    /\ procs' = [procs EXCEPT ![p][stream].done = TRUE]
    /\ UNCHANGED << pumpCfg, logger >>
    /\ UNCHANGED << mainVars, scanVars, taskVars, mosaicVars, trailerVars, cronVars >>

\* cron.ts line 196: executeCommand awaits both read loops after the status;
\* gallery-update.ts lines 567 and 674: the downloads await the status only
awaited(proc) ==
  /\ proc.status # <<>>
  /\ proc.tool = "command" => proc.stdout.done /\ proc.stderr.done

\* cron.ts lines 194-204, gallery-update.ts lines 567-581 and 674-688: the caller
\* goes on after its awaits and reports the result
ReturnResult ==
  \E p \in DOMAIN procs :
    /\ procs[p].phase = "running"
    /\ awaited(procs[p])
    /\ procs' = [procs EXCEPT ![p].phase = "returned"]
    /\ logger' =
         IF ~Downloading THEN logger
         ELSE removeDownload(
                updateDownload(logger, procs[p].url,
                               IF procs[p].status[1]
                               THEN CHECK \o " Download completed successfully"
                               ELSE CROSS \o " Download failed"),
                procs[p].url)
    /\ UNCHANGED pumpCfg
    /\ UNCHANGED << mainVars, scanVars, taskVars, mosaicVars, trailerVars, cronVars >>

PumpNext ==
  \/ SpawnProcess
  \/ ProcessExits
  \/ ReadChunk
  \/ ReadDone
  \/ ReturnResult

PumpSpec == PumpInit /\ [][PumpNext]_vars

\* C38: when the result of a spawned command has been reported, both of its read
\* loops have finished and no chunk of its output has been handled since.
C38_OutputComplete ==
  \A p \in DOMAIN procs :
    (procs[p].phase = "returned" /\ procs[p].spawned) =>
      /\ procs[p].stdout.done
      /\ procs[p].stderr.done
      /\ procs[p].late = 0

\* C39: a download whose removeDownload has run is not in the map of active
\* downloads and is in the map of completed ones; completedCount is the number
\* of downloads removed so far and is at most totalDownloads.
Removed == { p \in DOMAIN procs : Downloading /\ procs[p].phase = "returned" }
C39_ProgressState ==
  /\ \A p \in Removed :
       /\ procs[p].url \notin DOMAIN logger.activeDownloads
       /\ procs[p].url \in DOMAIN logger.completedDownloads
  /\ logger.completedCount = Cardinality(Removed)
  /\ logger.completedCount <= logger.totalDownloads

====
